---- MODULE Spec2Model ----
(***************************************************************************)
(* Cursor pagination and response envelopes of garmin-connect-mcp.         *)
(*                                                                         *)
(* One request is one behaviour: Init draws the request (the entry point,  *)
(* its arguments) and the environment (credentials, the upstream listing,  *)
(* the upstream calls that fail); one action per entry point runs it      *)
(* whole; Retry repeats the request against the now initialised            *)
(* module-level client.  For the response builders the behaviour also      *)
(* records the JSON text returned (wire) and the caller's arguments after  *)
(* the call (heap).  A second specification, Spec18, lets two callers page *)
(* through different queries of one server process in every interleaving.  *)
(*                                                                         *)
(* Python values that may be None are tagged records: None, IntV(n),       *)
(* StrV(s).  Text that the code takes apart (cursor tokens, timestamps) is *)
(* a sequence of one-symbol strings; text it only passes on is a string.   *)
(***************************************************************************)
EXTENDS Integers, Sequences, FiniteSets, TLC

VARIABLES
    pc,       \* "ready": request drawn, not yet run; "done": it has returned
    req,      \* the request: entry point and arguments
    env,      \* credentials, upstream listing, failing upstream methods
    wrapper,  \* activities._garmin_wrapper: "None" or "client"
    ret,      \* what the entry point returned (or the exception it raised)
    calls,    \* upstream calls (safe_call) made by the last invocation, in order
    wire,     \* the string a response builder returned, or the exception that escaped it
    heap,     \* the caller's argument objects as the builder left them
    callers   \* the clients that page through a query: their cursors and responses

vars == <<pc, req, env, wrapper, ret, calls, wire, heap, callers>>

---------------------------------------------------------------------------
(* Bounds of the model *)

\* pages a cursor may carry: 0..MaxPage (0 only in forged tokens)
MaxPage == 3
\* records in the upstream activity listing: 0..MaxRecords
MaxRecords == 5
\* symbols in a forged cursor token: 0..MaxGarbageLen
MaxGarbageLen == 2

---------------------------------------------------------------------------
(* Python values *)

None == [tag |-> "None"]
IntV(n) == [tag |-> "int", v |-> n]
StrV(s) == [tag |-> "str", v |-> s]
TextV(s) == [tag |-> "text", v |-> s]
DictV(f) == [tag |-> "dict", v |-> f]

\* an argument the caller leaves out
Omitted == [tag |-> "omitted"]
ArgOrDefault(arg, default) == IF arg.tag = "omitted" THEN default ELSE arg

\* bool(x) of a value the code tests with "if x:" / "x or default"
Truthy(x) ==
    CASE x.tag = "None" -> FALSE
      [] x.tag = "int" -> x.v # 0
      [] x.tag = "str" -> x.v # ""
      [] x.tag = "text" -> x.v # <<>>
      [] x.tag = "dict" -> DOMAIN x.v # {}
      [] x.tag = "list" -> x.v # <<>>
      [] OTHER -> TRUE

\* seq[a:b] of Python for a sequence of length n: negative indices count from
\* the end, both ends are clamped
PyIndex(i, n) == IF i < 0 THEN (IF i + n < 0 THEN 0 ELSE i + n) ELSE (IF i > n THEN n ELSE i)
PySlice(s, a, b) ==
    LET lo == PyIndex(a, Len(s))
        hi == PyIndex(b, Len(s))
    IN  IF hi <= lo THEN <<>> ELSE SubSeq(s, lo + 1, hi)

---------------------------------------------------------------------------
(* Cursor codec: encode_cursor / decode_cursor (pagination module)         *)
(* A token is a sequence of symbols.  encode writes the record             *)
(* {page, filters} as text and applies a reversible transport encoding;    *)
(* decode undoes the transport encoding and parses the text.               *)

FilterKeys == <<"activity_type", "end_date", "start_date">>
FilterKeySet == {FilterKeys[i] : i \in 1..Len(FilterKeys)}
\* calendar days by number, as the YYYY-MM-DD strings the tools exchange
DayNames == <<"2024-01-01", "2024-01-02", "2024-01-03", "2024-01-04">>
DayNameSet == {DayNames[i] : i \in 1..Len(DayNames)}
FilterValues == DayNameSet \cup {"running"}
\* every mapping of filter keys to values, the empty one included
FilterSets == UNION {[K -> FilterValues] : K \in SUBSET FilterKeySet}

DigitSym == <<"0", "1", "2", "3", "4", "5", "6", "7", "8", "9">>
DigitSet == {DigitSym[i] : i \in 1..Len(DigitSym)}
DigitVal(c) == (CHOOSE i \in 1..Len(DigitSym) : DigitSym[i] = c) - 1

RECURSIVE Digits(_)
Digits(n) ==
    IF n < 10 THEN <<DigitSym[n + 1]>>
    ELSE Digits(n \div 10) \o <<DigitSym[(n % 10) + 1]>>

RECURSIVE Number(_)
Number(ds) ==
    IF Len(ds) = 1 THEN DigitVal(ds[1])
    ELSE 10 * Number(SubSeq(ds, 1, Len(ds) - 1)) + DigitVal(ds[Len(ds)])

RECURSIVE WritePairs(_, _)
WritePairs(f, i) ==
    IF i > Len(FilterKeys) THEN <<>>
    ELSE (IF FilterKeys[i] \in DOMAIN f THEN <<FilterKeys[i], f[FilterKeys[i]]>> ELSE <<>>)
         \o WritePairs(f, i + 1)

\* a writer that leaves out a filter set that is empty
SerializeNonEmpty(page, filters) ==
    <<"{", "page">> \o Digits(page)
    \o (IF ~Truthy(filters) THEN <<>>
        ELSE <<"filters", "{">> \o WritePairs(filters.v, 1) \o <<"}">>)
    \o <<"}">>

\* the structured record as text
Serialize(page, filters) ==
    <<"{", "page">> \o Digits(page)
    \o (IF filters.tag = "None" THEN <<>>
        ELSE <<"filters", "{">> \o WritePairs(filters.v, 1) \o <<"}">>)
    \o <<"}">>

\* the symbols the transport encoding can carry
TextAlphabet == {"{", "}", "page", "filters"} \cup DigitSet \cup FilterKeySet \cup FilterValues

RECURSIVE Reverse(_)
Reverse(s) == IF s = <<>> THEN <<>> ELSE Reverse(Tail(s)) \o <<Head(s)>>

\* the reversible transport encoding and its inverse
TransportEncode(text) == Reverse(text)
TransportDecode(token) ==
    IF \A i \in 1..Len(token) : token[i] \in TextAlphabet
    THEN [ok |-> TRUE, text |-> Reverse(token)]
    ELSE [ok |-> FALSE]

encode_cursor(page, filters) == TransportEncode(Serialize(page, filters))

InvalidCursor == [ok |-> FALSE, raised |-> "ValueError", message |-> "Invalid pagination cursor"]

\* the key/value pairs of t, keys in writing order from FilterKeys[from]
\* on, none twice
RECURSIVE ReadPairs(_, _)
KeyIndex(key, from) ==
    IF \E i \in from..Len(FilterKeys) : FilterKeys[i] = key
    THEN CHOOSE i \in from..Len(FilterKeys) : FilterKeys[i] = key
    ELSE 0
PairsJoin(pair, rest) ==
    IF rest.ok THEN [ok |-> TRUE, f |-> <<pair>> \o rest.f] ELSE [ok |-> FALSE]
ReadPairsFrom(t, i) ==
    IF i = 0 \/ t[2] \notin FilterValues THEN [ok |-> FALSE]
    ELSE PairsJoin(<<t[1], t[2]>>, ReadPairs(SubSeq(t, 3, Len(t)), i + 1))
ReadPairs(t, from) ==
    IF t = <<>> THEN [ok |-> TRUE, f |-> <<>>]
    ELSE IF Len(t) < 2 THEN [ok |-> FALSE]
    ELSE ReadPairsFrom(t, KeyIndex(t[1], from))

PairsToMap(ps) ==
    [k \in {ps[i][1] : i \in 1..Len(ps)} |->
        (CHOOSE p \in {ps[i] : i \in 1..Len(ps)} : p[1] = k)[2]]

\* the last index of the run of digits that starts at t[3]; 2 when none does
DigitsEnd(t) ==
    IF Len(t) < 3 THEN 2
    ELSE CHOOSE j \in 2..Len(t) :
            /\ \A i \in 3..j : t[i] \in DigitSet
            /\ (j = Len(t) \/ t[j + 1] \notin DigitSet)

ParseFilters(page, ps) ==
    IF ps.ok THEN [ok |-> TRUE, data |-> ("page" :> page @@ "filters" :> PairsToMap(ps.f))]
    ELSE [ok |-> FALSE]

\* the record {"page" digits ["filters" {pairs}]}, digits ending at t[de]
ParseRecord(t, n, de) ==
    IF n < 4 \/ t[1] # "{" \/ t[2] # "page" \/ t[n] # "}" \/ de < 3
    THEN [ok |-> FALSE]
    ELSE IF de > 3 /\ t[3] = "0" THEN [ok |-> FALSE]
    ELSE IF de = n - 1
    THEN [ok |-> TRUE, data |-> ("page" :> Number(SubSeq(t, 3, de)))]
    ELSE IF n < de + 4 \/ t[de + 1] # "filters" \/ t[de + 2] # "{" \/ t[n - 1] # "}"
    THEN [ok |-> FALSE]
    ELSE ParseFilters(Number(SubSeq(t, 3, de)), ReadPairs(SubSeq(t, de + 3, n - 2), 1))

\* the text back to the record: fails on text that is no record or has no page
Parse(t) == ParseRecord(t, Len(t), DigitsEnd(t))

ParsedOrInvalid(rec) ==
    IF rec.ok THEN [ok |-> TRUE, data |-> rec.data] ELSE InvalidCursor
DecodeText(text) ==
    IF ~text.ok THEN InvalidCursor ELSE ParsedOrInvalid(Parse(text.text))
decode_cursor(token) == DecodeText(TransportDecode(token))

\* dict.get(key) of a decoded cursor: None when the key is absent
CursorGet(data, key) ==
    IF key \notin DOMAIN data THEN None
    ELSE IF key = "page" THEN IntV(data[key]) ELSE DictV(data[key])

---------------------------------------------------------------------------
(* Pagination info builder: build_pagination_info (pagination module) *)

\* a builder whose cursor stays on the current page
build_pagination_info_same_page(returned_count, limit, current_page, has_more, filters) ==
    [cursor   |-> IF has_more THEN TextV(encode_cursor(current_page, filters)) ELSE None,
     has_more |-> has_more,
     limit    |-> limit,
     returned |-> returned_count]

build_pagination_info(returned_count, limit, current_page, has_more, filters) ==
    [cursor   |-> IF has_more THEN TextV(encode_cursor(current_page + 1, filters)) ELSE None,
     has_more |-> has_more,
     limit    |-> limit,
     returned |-> returned_count]

---------------------------------------------------------------------------
(* Response envelope builder (response_builder.py) *)

ListV(s) == [tag |-> "list", v |-> s]
\* a datetime: calendar date, time of day, microseconds, "UTC" or "naive"
DatetimeV(d, t, us, tz) == [tag |-> "datetime", date |-> d, time |-> t, micro |-> us, tz |-> tz]

\* s.replace(old, new) on a text whose symbols are the units replaced
Replace(s, old, new) == [i \in 1..Len(s) |-> IF s[i] = old THEN new ELSE s[i]]

\* datetime.isoformat(): microseconds only when non-zero, the offset only
\* for an aware datetime
isoformat(dt) ==
    <<dt.date, "T", dt.time>>
    \o (IF dt.micro # "000000" THEN <<".", dt.micro>> ELSE <<>>)
    \o (IF dt.tz = "UTC" THEN <<"+00:00">> ELSE <<>>)

\* the timestamp with its numeric offset left in place
TimestampWithOffset(now) == isoformat(now)

\* datetime.now(UTC).isoformat().replace("+00:00", "Z")
Timestamp(now) == Replace(isoformat(now), "+00:00", "Z")

BoolV(b) == [tag |-> "bool", v |-> b]
\* a float, by the literal json.dumps writes for it
FloatV(lit) == [tag |-> "float", v |-> lit]
\* a dict whose keys are integers
IntKeyDictV(f) == [tag |-> "intdict", v |-> f]
\* a value of a type json cannot encode (a set, a datetime.date)
ObjectV == [tag |-> "object"]
\* a list that holds itself
CycleV == [tag |-> "cycle"]
\* the exception an evaluation ended with, in place of its value
RaiseV(exc) == [tag |-> "raise", exc |-> exc]

\* str(k) of a dict key
str(k) == ToString(k)

\* a walk that rebuilds nothing but the datetimes
ReturnsSameObjectUnlessDatetime(obj) == obj.tag # "datetime"

\* the value is returned as it is, not rebuilt
ReturnsSameObject(obj) == obj.tag \notin {"datetime", "dict", "intdict", "list", "cycle"}

RECURSIVE _convert_datetimes(_)
\* the walk with str(obj) in place of obj.isoformat()
_convert_datetimes_str(obj) ==
    CASE obj.tag = "datetime" -> TextV(<<obj.date, " ", obj.time>>)
      [] obj.tag = "dict" -> DictV([k \in DOMAIN obj.v |-> _convert_datetimes(obj.v[k])])
      [] obj.tag = "intdict" ->
            DictV([k \in {str(n) : n \in DOMAIN obj.v} |->
                     _convert_datetimes(obj.v[CHOOSE n \in DOMAIN obj.v : str(n) = k])])
      [] obj.tag = "list" -> ListV([i \in 1..Len(obj.v) |-> _convert_datetimes(obj.v[i])])
      [] obj.tag = "cycle" -> RaiseV("RecursionError")
      [] OTHER -> obj

_convert_datetimes(obj) ==
    CASE obj.tag = "datetime" -> TextV(isoformat(obj))
      [] obj.tag = "dict" -> DictV([k \in DOMAIN obj.v |-> _convert_datetimes(obj.v[k])])
      [] obj.tag = "intdict" ->
            DictV([k \in {str(n) : n \in DOMAIN obj.v} |->
                     _convert_datetimes(obj.v[CHOOSE n \in DOMAIN obj.v : str(n) = k])])
      [] obj.tag = "list" -> ListV([i \in 1..Len(obj.v) |-> _convert_datetimes(obj.v[i])])
      [] obj.tag = "cycle" -> RaiseV("RecursionError")
      [] OTHER -> obj

\* converted_meta["fetched_at"] = ...: the caller's entry of that name is
\* overwritten
WithFetchedAt(converted_meta, now) ==
    [k \in DOMAIN converted_meta \cup {"fetched_at"} |->
        IF k = "fetched_at" THEN TextV(Timestamp(now)) ELSE converted_meta[k]]

ResponseDict(converted_data, converted_analysis, pagination, converted_meta) ==
    ("data" :> converted_data)
    @@ (IF Truthy(converted_analysis) THEN "analysis" :> converted_analysis ELSE <<>>)
    @@ (IF Truthy(pagination) THEN "pagination" :> pagination ELSE <<>>)
    @@ ("metadata" :> DictV(converted_meta))

\* the response dict that build_response hands to json.dumps
build_response(data, analysis, metadata, pagination, now) ==
    ResponseDict(
        _convert_datetimes(data),
        IF Truthy(analysis) THEN _convert_datetimes(analysis) ELSE None,
        pagination,
        WithFetchedAt(_convert_datetimes(IF Truthy(metadata) THEN metadata ELSE DictV(<<>>)).v,
                      now))

\* the caller's argument objects after build_response: the one statement
\* that writes into a dict other than the new response is
\* converted_meta["fetched_at"] = ..., and converted_meta is the caller's
\* metadata only if "metadata or {}" and _convert_datetimes both hand the
\* caller's object on
ArgumentsAfter(data, analysis, metadata, pagination, now) ==
    [data |-> data, analysis |-> analysis, pagination |-> pagination,
     metadata |-> IF Truthy(metadata) /\ ReturnsSameObject(metadata)
                  THEN DictV(WithFetchedAt(metadata.v, now))
                  ELSE metadata]

\* the suggestions entry is written whatever was supplied
ErrorDictWithSuggestions(message, error_type, suggestions, now) ==
    [error |-> ("type" :> error_type)
               @@ ("message" :> message)
               @@ ("timestamp" :> TextV(Timestamp(now)))
               @@ ("suggestions" :> suggestions)]

\* the response dict that build_error_response hands to json.dumps
ErrorDict(message, error_type, suggestions, now) ==
    [error |-> ("type" :> error_type)
               @@ ("message" :> message)
               @@ ("timestamp" :> TextV(Timestamp(now)))
               @@ (IF Truthy(suggestions) THEN "suggestions" :> suggestions ELSE <<>>)]

\* build_error_response as the tools call it: message and error_type are
\* strings, suggestions is a sequence, <<>> when none are given
build_error_response(message, error_type, suggestions, now) ==
    ErrorDict(StrV(message), StrV(error_type), ListV(suggestions), now)

IsErrorEnvelope(r) == DOMAIN r = {"error"}
IsSuccessEnvelope(r) == "data" \in DOMAIN r

\* format_activity on an activity dict that holds none of the optional
\* measurement fields: a copy of the dict
format_activity(activity, unit) == activity

---------------------------------------------------------------------------
(* JSON text: json.dumps(response, separators=(",", ":")) and json.loads.  *)
(* The text is a sequence of chunks: the structural characters, the        *)
(* literals, the digits, and the pieces of string contents.                *)

\* the order in which the dicts of the model hold their keys
KeyOrder ==
    <<"data", "analysis", "pagination", "metadata", "error", "type", "message", "timestamp",
      "suggestions", "insights", "name", "activity_date", "laps", "start", "pace", "tags",
      "self", "unit", "since", "fetched_at", "1", "2">>

\* the item separator of json.dumps(..., indent=2), one level deep
ItemSeparatorIndented == <<",", "\n", " ", " ">>

\* separators=(",", ":")
ItemSeparator == <<",">>
KeySeparator == <<":">>

\* the contents of a string literal: quote, backslash and newline are escaped
RECURSIVE Escape(_)
Escape(cs) ==
    IF cs = <<>> THEN <<>>
    ELSE (CASE Head(cs) = "\n" -> <<"\\", "n">>
            [] Head(cs) = "\"" -> <<"\\", "\"">>
            [] Head(cs) = "\\" -> <<"\\", "\\">>
            [] OTHER -> <<Head(cs)>>)
         \o Escape(Tail(cs))

StringLiteral(cs) == <<"\"">> \o Escape(cs) \o <<"\"">>
IntLiteral(n) == IF n < 0 THEN <<"-">> \o Digits(0 - n) ELSE Digits(n)

RECURSIVE Encode(_)
RECURSIVE EncodeItems(_, _)
RECURSIVE EncodeMembers(_, _, _)
Encode(obj) ==
    CASE obj.tag = "None" -> <<"null">>
      [] obj.tag = "bool" -> (IF obj.v THEN <<"true">> ELSE <<"false">>)
      [] obj.tag = "int" -> IntLiteral(obj.v)
      [] obj.tag = "float" -> <<obj.v>>
      [] obj.tag = "str" -> StringLiteral(<<obj.v>>)
      [] obj.tag = "text" -> StringLiteral(obj.v)
      [] obj.tag = "list" -> <<"[">> \o EncodeItems(obj.v, 1) \o <<"]">>
      [] obj.tag = "dict" -> <<"{">> \o EncodeMembers(obj.v, 1, TRUE) \o <<"}">>
EncodeItems(s, i) ==
    IF i > Len(s) THEN <<>>
    ELSE (IF i > 1 THEN ItemSeparator ELSE <<>>) \o Encode(s[i]) \o EncodeItems(s, i + 1)
EncodeMembers(f, i, first) ==
    IF i > Len(KeyOrder) THEN <<>>
    ELSE IF KeyOrder[i] \notin DOMAIN f THEN EncodeMembers(f, i + 1, first)
    ELSE (IF first THEN <<>> ELSE ItemSeparator)
         \o StringLiteral(<<KeyOrder[i]>>) \o KeySeparator \o Encode(f[KeyOrder[i]])
         \o EncodeMembers(f, i + 1, FALSE)

\* the pagination block, whose has_more, limit and returned are a bool and
\* two ints
EncodePagination(p) ==
    <<"{">> \o StringLiteral(<<"cursor">>) \o KeySeparator \o Encode(p.cursor)
    \o ItemSeparator \o StringLiteral(<<"has_more">>) \o KeySeparator \o Encode(BoolV(p.has_more))
    \o ItemSeparator \o StringLiteral(<<"limit">>) \o KeySeparator \o Encode(IntV(p.limit))
    \o ItemSeparator \o StringLiteral(<<"returned">>) \o KeySeparator \o Encode(IntV(p.returned))
    \o <<"}">>

\* one member of the response dict, in the order the builder inserts them
EnvelopeMember(response, k) ==
    IF k \notin DOMAIN response THEN <<>>
    ELSE (IF k = "data" THEN <<>> ELSE ItemSeparator)
         \o StringLiteral(<<k>>) \o KeySeparator
         \o (IF k = "pagination" THEN EncodePagination(response[k].v) ELSE Encode(response[k]))

EncodeEnvelope(response) ==
    <<"{">> \o EnvelopeMember(response, "data") \o EnvelopeMember(response, "analysis")
    \o EnvelopeMember(response, "pagination") \o EnvelopeMember(response, "metadata") \o <<"}">>

\* some value nested in obj, obj included, carries the tag
RECURSIVE Holds(_, _)
Holds(obj, tag) ==
    \/ obj.tag = tag
    \/ obj.tag \in {"dict", "intdict"} /\ \E k \in DOMAIN obj.v : Holds(obj.v[k], tag)
    \/ obj.tag = "list" /\ \E i \in 1..Len(obj.v) : Holds(obj.v[i], tag)

\* a builder that answers an input it cannot encode with an empty object
ResponseTextOrEmpty(response) ==
    IF \E k \in {"data", "analysis", "metadata"} \cap DOMAIN response :
          Holds(response[k], "raise") \/ Holds(response[k], "object")
          \/ Holds(response[k], "datetime")
    THEN [ok |-> TRUE, text |-> <<"{", "}">>]
    ELSE [ok |-> TRUE, text |-> EncodeEnvelope(response)]

\* what the call of build_response ends with: the string json.dumps returns,
\* or the exception that escapes (RecursionError out of _convert_datetimes,
\* TypeError out of json.dumps)
ResponseText(response) ==
    IF \E k \in {"data", "analysis", "metadata"} \cap DOMAIN response : Holds(response[k], "raise")
    THEN [ok |-> FALSE, exc |-> "RecursionError"]
    ELSE IF \E k \in {"data", "analysis", "metadata"} \cap DOMAIN response :
                Holds(response[k], "object") \/ Holds(response[k], "datetime")
    THEN [ok |-> FALSE, exc |-> "TypeError"]
    ELSE [ok |-> TRUE, text |-> EncodeEnvelope(response)]

\* what the call of build_error_response ends with
ErrorText(response) ==
    [ok |-> TRUE, text |-> Encode(DictV([error |-> DictV(response.error)]))]

---------------------------------------------------------------------------
(* The wrapped client: GarminClientWrapper.safe_call (client.py) *)

\* what the garminconnect client can raise: the exception class and the
\* status markers its text holds
RawErrors ==
    {[cls |-> "GarminConnectAuthenticationError", status |-> "none", marks |-> {}],
     [cls |-> "GarthHTTPError", status |-> "429", marks |-> {"429"}],
     [cls |-> "GarthHTTPError", status |-> "404", marks |-> {"404"}],
     [cls |-> "GarthHTTPError", status |-> "401", marks |-> {"401"}],
     [cls |-> "GarthHTTPError", status |-> "500", marks |-> {"500"}],
     [cls |-> "ConnectionError", status |-> "none", marks |-> {}],
     \* the text of a GarthHTTPError holds the request's URL: an id in it can
     \* spell another status
     [cls |-> "GarthHTTPError", status |-> "404", marks |-> {"404", "429"}],
     [cls |-> "GarthHTTPError", status |-> "500", marks |-> {"500", "404"}],
     [cls |-> "GarthHTTPError", status |-> "403", marks |-> {"403"}],
     [cls |-> "AttributeError", status |-> "none", marks |-> {}]}

ActivityV(k) == DictV([activityId |-> IntV(k)])
\* the upstream's ordered activity listing, newest first
Listing(n) == [k \in 1..n |-> ActivityV(k)]
DataV(method, day) == [tag |-> "data", method |-> method, day |-> day]

\* the result of the client's method when it does not raise
UpstreamValue(e, method, args) ==
    CASE method = "get_activities" ->
             ListV(PySlice(Listing(e.listing), args[1], args[1] + args[2]))
      [] method = "get_activities_by_date" -> ListV(Listing(e.listing))
      [] method = "get_activities_fordate" -> ListV(Listing(e.listing))
      [] method = "get_activity" ->
             IF args[1] \in 1..e.listing THEN ActivityV(args[1]) ELSE None
      [] method = "get_last_activity" ->
             IF e.listing > 0 THEN ActivityV(1) ELSE None
      [] OTHER -> DataV(method, args[1])

GarminAPIErrorClasses ==
    {"GarminAPIError", "GarminRateLimitError", "GarminNotFoundError", "GarminAuthenticationError"}

Raise(exc, message) == [ok |-> FALSE, exc |-> exc, message |-> message]

GarminRateLimitError ==
    Raise("GarminRateLimitError",
          "Rate limit exceeded. Please wait a few minutes before trying again.")
GarminNotFoundError ==
    Raise("GarminNotFoundError",
          "Resource not found. Please check the ID or date and try again.")
GarminAuthenticationError ==
    Raise("GarminAuthenticationError",
          "Authentication failed. Please run 'garmin-connect-mcp-auth' to re-authenticate.")

safe_call(e, method, args) ==
    IF method \notin e.failing
    THEN [ok |-> TRUE, value |-> UpstreamValue(e, method, args)]
    ELSE LET raw == e.raw_error
         IN  CASE raw.cls = "AttributeError" ->
                      Raise("GarminAPIError", "Method '{method_name}' not found on Garmin client")
               [] raw.cls = "GarminConnectAuthenticationError" -> GarminAuthenticationError
               [] raw.cls = "GarthHTTPError" ->
                      IF "429" \in raw.marks \/ "Too Many Requests" \in raw.marks
                      THEN GarminRateLimitError
                      ELSE IF "404" \in raw.marks \/ "Not Found" \in raw.marks
                      THEN GarminNotFoundError
                      ELSE IF "401" \in raw.marks \/ "403" \in raw.marks
                              \/ "Unauthorized" \in raw.marks
                      THEN GarminAuthenticationError
                      ELSE Raise("GarminAPIError", "Garmin API error: {e}")
               [] OTHER -> Raise("GarminAPIError", "Unexpected error: {e}")

Call(method, args) == [method |-> method, args |-> args]

---------------------------------------------------------------------------
(* Activity tools (tools/activities.py) *)

ActivityLimitMin == 1
ActivityLimitMax == 50
ActivityDefaultLimit == 10

\* what a function body did: returned a value or raised, and the upstream
\* calls it made on the way
Return(value, cs) == [kind |-> "return", value |-> value, calls |-> cs]
Raised(exc, message, cs) == [kind |-> "raise", exc |-> exc, message |-> message, calls |-> cs]

\* a wrapper that serves the call that created it and no other
_get_client_once(e, w) ==
    IF w # "None" THEN Raised("GarminAPIError", "Failed to initialize Garmin client", <<>>)
    ELSE IF e.credentials = "unconfigured"
    THEN Raised("GarminAPIError", "Garmin credentials not configured.", <<>>)
    ELSE IF e.credentials = "login_failed"
    THEN Raised("GarminAPIError", "Failed to initialize Garmin client", <<Call("login", <<>>)>>)
    ELSE Return("client", <<Call("login", <<>>)>>)

\* _get_client(): the module-level wrapper, created on first use
_get_client(e, w) ==
    IF w # "None" THEN Return(w, <<>>)
    ELSE IF e.credentials = "unconfigured"
    THEN Raised("GarminAPIError", "Garmin credentials not configured.", <<>>)
    ELSE IF e.credentials = "login_failed"
    THEN Raised("GarminAPIError", "Failed to initialize Garmin client", <<Call("login", <<>>)>>)
    ELSE Return("client", <<Call("login", <<>>)>>)

InvalidCursorError(e) ==
    build_error_response("Invalid pagination cursor", "validation_error", <<>>, e.now)
InvalidActivityLimit(e) ==
    build_error_response("Invalid limit: {limit}. Must be between 1 and 50.",
                         "validation_error", <<>>, e.now)

\* the envelope of one page of activities
ActivityEnvelope(e, activities, pagination, metadata, unit, no_result) ==
    IF activities = <<>>
    THEN build_response(DictV([activities |-> ListV(<<>>), count |-> IntV(0)]),
                        DictV([insights |-> ListV(<<StrV(no_result)>>)]),
                        DictV(metadata), DictV(pagination), e.now)
    ELSE build_response(DictV([activities |->
                                  ListV([i \in 1..Len(activities) |->
                                            format_activity(activities[i], unit)]),
                               count |-> IntV(Len(activities))]),
                        None, DictV(metadata), DictV(pagination), e.now)

\* a page tail that reports more whenever the window fills the page
ActivityPageFull(e, window, limit, current_page, filters, metadata, unit, no_result) ==
    ActivityEnvelope(e, PySlice(window, 0, limit),
                     build_pagination_info(Len(PySlice(window, 0, limit)), limit, current_page,
                                           Len(window) >= limit, DictV(filters)),
                     metadata, unit, no_result)

\* the tail shared by both paginated activity queries: trim the fetched
\* window to activities[:limit], build the pagination block and the envelope
ActivityPage(e, window, limit, current_page, filters, metadata, unit, no_result) ==
    ActivityEnvelope(e, PySlice(window, 0, limit),
                     build_pagination_info(Len(PySlice(window, 0, limit)), limit, current_page,
                                           Len(window) > limit, DictV(filters)),
                     metadata, unit, no_result)

\* a reading of the cursor that starts over at the first page
DecodedPageFirst(cursor_data) ==
    IF cursor_data.ok THEN [ok |-> TRUE, page |-> 1] ELSE [ok |-> FALSE]

\* the page a cursor argument resolves to, or the ValueError of decode_cursor
DecodedPage(cursor_data) ==
    IF cursor_data.ok THEN [ok |-> TRUE, page |-> cursor_data.data["page"]]
    ELSE [ok |-> FALSE]
CursorPage(cursor) ==
    IF ~Truthy(cursor) THEN [ok |-> TRUE, page |-> 1] ELSE DecodedPage(decode_cursor(cursor.v))

TypeOrAll(activity_type) == StrV(IF activity_type # "" THEN activity_type ELSE "all")
\* filters that leave the activity type out
TypeFilterNone(activity_type) == <<>>
TypeFilter(activity_type) ==
    IF activity_type # "" THEN [activity_type |-> activity_type] ELSE <<>>

\* _query_activities_general_paginated after its validation
GeneralFetched(e, activity_type, limit, unit, current_page, fetched, cs) ==
    IF ~fetched.ok THEN Raised(fetched.exc, fetched.message, cs)
    ELSE Return(ActivityPage(e, fetched.value.v, limit, current_page,
                             TypeFilter(activity_type),
                             [activity_type |-> TypeOrAll(activity_type), unit |-> StrV(unit)],
                             unit, "No activities found{type_msg}"), cs)

GeneralValidated(e, activity_type, limit, unit, cp) ==
    IF ~cp.ok THEN Return(InvalidCursorError(e), <<>>)
    ELSE IF limit < ActivityLimitMin \/ limit > ActivityLimitMax
    THEN Return(InvalidActivityLimit(e), <<>>)
    ELSE GeneralFetched(e, activity_type, limit, unit, cp.page,
             safe_call(e, "get_activities", <<(cp.page - 1) * limit, limit + 1, activity_type>>),
             <<Call("get_activities", <<(cp.page - 1) * limit, limit + 1, activity_type>>)>>)

_query_activities_general_paginated(e, activity_type, cursor, limit, unit) ==
    GeneralValidated(e, activity_type, limit, unit, CursorPage(cursor))

\* _query_activities_paginated after its validation: the whole date range is
\* fetched and all_activities[offset : offset + fetch_limit] is the window
RangeFetched(e, start_date, end_date, activity_type, limit, unit, current_page, all_activities, cs) ==
    IF ~all_activities.ok THEN Raised(all_activities.exc, all_activities.message, cs)
    ELSE Return(ActivityPage(e,
                    PySlice(all_activities.value.v, (current_page - 1) * limit,
                            (current_page - 1) * limit + (limit + 1)),
                    limit, current_page,
                    [start_date |-> start_date, end_date |-> end_date]
                        @@ TypeFilter(activity_type),
                    [start_date |-> StrV(start_date), end_date |-> StrV(end_date),
                     activity_type |-> TypeOrAll(activity_type), unit |-> StrV(unit)],
                    unit,
                    "No activities found{type_msg} between {start_date} and {end_date}"), cs)

RangeValidated(e, start_date, end_date, activity_type, limit, unit, cp) ==
    IF ~cp.ok THEN Return(InvalidCursorError(e), <<>>)
    ELSE IF limit < ActivityLimitMin \/ limit > ActivityLimitMax
    THEN Return(InvalidActivityLimit(e), <<>>)
    ELSE RangeFetched(e, start_date, end_date, activity_type, limit, unit, cp.page,
             safe_call(e, "get_activities_by_date", <<start_date, end_date, activity_type>>),
             <<Call("get_activities_by_date", <<start_date, end_date, activity_type>>)>>)

_query_activities_paginated(e, start_date, end_date, activity_type, cursor, limit, unit) ==
    RangeValidated(e, start_date, end_date, activity_type, limit, unit, CursorPage(cursor))

\* parse_date_string (time_utils.py): the day a date string names
parse_date_string(e, date_str) ==
    IF date_str = "today" THEN [ok |-> TRUE, day |-> e.today]
    ELSE IF date_str = "yesterday" THEN [ok |-> TRUE, day |-> e.today - 1]
    ELSE IF date_str \in DayNameSet
    THEN [ok |-> TRUE, day |-> CHOOSE d \in 1..Len(DayNames) : DayNames[d] = date_str]
    ELSE [ok |-> FALSE]


\* "limit or 10"
LimitOrDefault(limit) == IF Truthy(limit) THEN limit.v ELSE ActivityDefaultLimit

\* Pattern 1: one activity by id
ActivityById(e, a, activity, cs) ==
    IF ~activity.ok THEN Raised(activity.exc, activity.message, cs)
    ELSE IF ~Truthy(activity.value)
    THEN Return(build_error_response("Activity {activity_id} not found", "not_found",
                    <<StrV("Check that the activity ID is correct"),
                      StrV("Try query_activities() to list recent activities")>>, e.now), cs)
    ELSE Return(build_response(DictV([activity |-> format_activity(activity.value, a.unit)]),
                               None,
                               DictV([activity_id |-> a.activity_id, unit |-> StrV(a.unit)]),
                               None, e.now), cs)

\* Pattern 3: the activities of one date
ActivitiesForDateFetched(e, a, date_str, activities, cs) ==
    IF ~activities.ok THEN Raised(activities.exc, activities.message, cs)
    ELSE IF ~Truthy(activities.value)
    THEN Return(build_response(DictV([activities |-> ListV(<<>>), count |-> IntV(0)]),
                    DictV([insights |-> ListV(<<StrV("No activities found for {date_str}")>>)]),
                    DictV([date |-> StrV(date_str)]), None, e.now), cs)
    ELSE Return(build_response(
                    DictV([activities |->
                              ListV([i \in 1..Len(activities.value.v) |->
                                        format_activity(activities.value.v[i], a.unit)]),
                           count |-> IntV(Len(activities.value.v))]),
                    None, DictV([date |-> StrV(date_str), unit |-> StrV(a.unit)]),
                    None, e.now), cs)

ActivitiesForDate(e, a, parsed_date) ==
    IF ~parsed_date.ok THEN Raised("ValueError", "Invalid date format: {date_str}.", <<>>)
    ELSE ActivitiesForDateFetched(e, a, DayNames[parsed_date.day],
             safe_call(e, "get_activities_fordate", <<DayNames[parsed_date.day]>>),
             <<Call("get_activities_fordate", <<DayNames[parsed_date.day]>>)>>)

\* Pattern 5: the last activity
LastActivity(e, a, activity, cs) ==
    IF ~activity.ok THEN Raised(activity.exc, activity.message, cs)
    ELSE IF ~Truthy(activity.value)
    THEN Return(build_response(DictV([activity |-> None]),
                               DictV([insights |-> ListV(<<StrV("No activities found")>>)]),
                               None, None, e.now), cs)
    ELSE Return(build_response(DictV([activity |-> format_activity(activity.value, a.unit)]),
                               None,
                               DictV([query_type |-> StrV("last_activity"),
                                      unit |-> StrV(a.unit)]),
                               None, e.now), cs)

\* the dispatch with the single date tested before the date range
QueryActivitiesBodyDateFirst(e, a) ==
    IF a.activity_id.tag # "None"
    THEN ActivityById(e, a, safe_call(e, "get_activity", <<a.activity_id.v>>),
                      <<Call("get_activity", <<a.activity_id.v>>)>>)
    ELSE IF Truthy(a.date)
    THEN ActivitiesForDate(e, a, parse_date_string(e, a.date.v))
    ELSE IF Truthy(a.start_date) /\ Truthy(a.end_date)
    THEN _query_activities_paginated(e, a.start_date.v, a.end_date.v, a.activity_type,
                                     a.cursor, LimitOrDefault(a.limit), a.unit)
    ELSE IF a.cursor.tag # "None" \/ a.limit.tag # "None"
    THEN _query_activities_general_paginated(e, a.activity_type, a.cursor,
                                             LimitOrDefault(a.limit), a.unit)
    ELSE LastActivity(e, a, safe_call(e, "get_last_activity", <<>>),
                      <<Call("get_last_activity", <<>>)>>)

\* the body of query_activities inside its try block, after _get_client
QueryActivitiesBody(e, a) ==
    IF a.activity_id.tag # "None"
    THEN ActivityById(e, a, safe_call(e, "get_activity", <<a.activity_id.v>>),
                      <<Call("get_activity", <<a.activity_id.v>>)>>)
    ELSE IF Truthy(a.start_date) /\ Truthy(a.end_date)
    THEN _query_activities_paginated(e, a.start_date.v, a.end_date.v, a.activity_type,
                                     a.cursor, LimitOrDefault(a.limit), a.unit)
    ELSE IF Truthy(a.date)
    THEN ActivitiesForDate(e, a, parse_date_string(e, a.date.v))
    ELSE IF a.cursor.tag # "None" \/ a.limit.tag # "None"
    THEN _query_activities_general_paginated(e, a.activity_type, a.cursor,
                                             LimitOrDefault(a.limit), a.unit)
    ELSE LastActivity(e, a, safe_call(e, "get_last_activity", <<>>),
                      <<Call("get_last_activity", <<>>)>>)

\* except clauses that match the exception class by name, not by isinstance
ActivityExceptExact(e, out) ==
    IF out.kind = "return" THEN out.value
    ELSE IF out.exc = "GarminAPIError"
    THEN build_error_response(out.message, "garmin_api_error",
             <<StrV("Check your Garmin Connect credentials"),
               StrV("Verify your internet connection")>>, e.now)
    ELSE build_error_response(out.message, "unexpected_error", <<>>, e.now)

\* the except clauses of query_activities
ActivityExcept(e, out) ==
    IF out.kind = "return" THEN out.value
    ELSE IF out.exc \in GarminAPIErrorClasses
    THEN build_error_response(out.message, "garmin_api_error",
             <<StrV("Check your Garmin Connect credentials"),
               StrV("Verify your internet connection")>>, e.now)
    ELSE build_error_response(out.message, "unexpected_error", <<>>, e.now)

\* the try block of query_activities: _get_client, then the body
ActivitiesTry(e, a, client) ==
    IF client.kind = "raise" THEN client
    ELSE [QueryActivitiesBody(e, a) EXCEPT !.calls = client.calls \o @]

ActivitiesOutcome(e, w, client, out) ==
    [ret     |-> [raised |-> FALSE, value |-> ActivityExcept(e, out)],
     calls   |-> out.calls,
     wrapper |-> IF client.kind = "raise" THEN w ELSE client.value]

ActivitiesWithClient(e, w, a, client) ==
    ActivitiesOutcome(e, w, client, ActivitiesTry(e, a, client))

\* query_activities: the returned envelope, the upstream calls made and the
\* module-level wrapper afterwards
query_activities(e, w, a) == ActivitiesWithClient(e, w, a, _get_client(e, w))

---------------------------------------------------------------------------
(* Health summary tool (tools/health_wellness.py) *)

HealthLimitMin == 1
HealthLimitMax == 30
HealthDefaultLimit == 7

\* int(s) of a string: an optional sign and decimal digits
int(text) ==
    LET signed == text # <<>> /\ text[1] \in {"-", "+"}
        ds == IF signed THEN Tail(text) ELSE text
    IN  IF ds = <<>> \/ \E i \in 1..Len(ds) : ds[i] \notin DigitSet
        THEN [ok |-> FALSE]
        ELSE [ok |-> TRUE,
              v |-> IF signed /\ text[1] = "-" THEN 0 - Number(ds) ELSE Number(ds)]

\* format_date_with_day of a YYYY-MM-DD string (the weekday texts left out)
format_date_with_day(date_str) ==
    DictV([datetime |-> StrV(date_str), date |-> StrV(date_str)])

\* the methods called for one day, in calling order
DayMethods(a) ==
    <<"get_stats", "get_user_summary">>
    \o (IF a.include_training_readiness THEN <<"get_training_readiness">> ELSE <<>>)
    \o (IF a.include_training_status THEN <<"get_training_status">> ELSE <<>>)
    \o (IF a.include_body_battery THEN <<"get_body_battery", "get_body_battery_events">>
        ELSE <<>>)

SummaryKey(method) ==
    CASE method = "get_stats" -> "stats"
      [] method = "get_user_summary" -> "user_summary"
      [] method = "get_training_readiness" -> "training_readiness"
      [] method = "get_training_status" -> "training_status"
      [] method = "get_body_battery" -> "body_battery"
      [] method = "get_body_battery_events" -> "body_battery_events"

DayArgs(method, date_str) ==
    IF method = "get_body_battery" THEN <<date_str, date_str>> ELSE <<date_str>>

\* a fallback that leaves an empty list where the call failed
OrEmpty(r) == IF r.ok THEN r.value ELSE ListV(<<>>)

\* "try: x = client.safe_call(...) except Exception: x = None"
OrNone(r) == IF r.ok THEN r.value ELSE None
MethodOfKey(a, k) ==
    CHOOSE m \in {DayMethods(a)[i] : i \in 1..Len(DayMethods(a))} : SummaryKey(m) = k

\* one pass of the "for date_str in dates" loop: a failed call leaves None
DaySummary(e, a, date_str) ==
    DictV([k \in {"date"} \cup {SummaryKey(DayMethods(a)[i]) : i \in 1..Len(DayMethods(a))} |->
              IF k = "date" THEN format_date_with_day(date_str)
              ELSE OrNone(safe_call(e, MethodOfKey(a, k),
                                    DayArgs(MethodOfKey(a, k), date_str)))])

DayCalls(a, date_str) ==
    [i \in 1..Len(DayMethods(a)) |-> Call(DayMethods(a)[i], DayArgs(DayMethods(a)[i], date_str))]

RECURSIVE Flatten(_)
Flatten(ss) == IF ss = <<>> THEN <<>> ELSE Head(ss) \o Flatten(Tail(ss))

\* the days from start up to the day before end
AllDatesOpen(start, end) ==
    [i \in 1..(IF end <= start THEN 0 ELSE end - start) |-> DayNames[start + i - 1]]

\* every day from start to end, none when start is after end
AllDates(start, end) ==
    [i \in 1..(IF end < start THEN 0 ELSE end - start + 1) |-> DayNames[start + i - 1]]

\* a page that keeps the look-ahead day
RangePageUncut(dates, limit) ==
    [ok |-> TRUE, dates |-> dates, is_range |-> TRUE, has_more |-> Len(dates) > limit]

\* dates = all_dates[offset : offset + fetch_limit]; has_more; dates[:limit]
RangePage(dates, limit) ==
    [ok |-> TRUE, dates |-> PySlice(dates, 0, limit), is_range |-> TRUE,
     has_more |-> Len(dates) > limit]

RangeDates(start, end, current_page, limit) ==
    IF ~start.ok \/ ~end.ok THEN [ok |-> FALSE]
    ELSE RangePage(PySlice(AllDates(start.day, end.day), (current_page - 1) * limit,
                           (current_page - 1) * limit + (limit + 1)), limit)

SingleDate(p) ==
    IF p.ok
    THEN [ok |-> TRUE, dates |-> <<DayNames[p.day]>>, is_range |-> FALSE, has_more |-> FALSE]
    ELSE [ok |-> FALSE]

\* the dates to query: [ok, dates, is_range, has_more], or the ValueError
\* of parse_date_string
HealthDates(e, a, current_page, limit) ==
    IF Truthy(a.date) THEN SingleDate(parse_date_string(e, a.date.v))
    ELSE IF Truthy(a.start_date) /\ Truthy(a.end_date)
    THEN RangeDates(parse_date_string(e, a.start_date.v), parse_date_string(e, a.end_date.v),
                    current_page, limit)
    ELSE SingleDate(parse_date_string(e, "today"))

\* "Build insights" of query_health_summary
HealthInsights(summaries) ==
    IF Len(summaries) = 1
    THEN (IF "training_readiness" \in DOMAIN summaries[1].v
             /\ Truthy(summaries[1].v["training_readiness"])
          THEN <<StrV("Training readiness data available")>> ELSE <<>>)
         \o (IF "body_battery" \in DOMAIN summaries[1].v
                /\ Truthy(summaries[1].v["body_battery"])
             THEN <<StrV("Body Battery tracking available")>> ELSE <<>>)
    ELSE <<StrV("Health summary for {n} days")>>

HealthAnalysis(insights) ==
    IF insights # <<>> THEN DictV([insights |-> ListV(insights)]) ELSE None

\* "Return appropriate structure": metadata reads dates[0] and dates[-1]
HealthEnvelope(e, a, limit, current_page, hd, summaries, cs) ==
    IF hd.is_range
    THEN (IF hd.dates = <<>> THEN Raised("IndexError", "list index out of range", cs)
          ELSE Return(build_response(
                          DictV([summaries |-> ListV(summaries),
                                 count |-> IntV(Len(summaries))]),
                          HealthAnalysis(HealthInsights(summaries)),
                          DictV([start_date |-> StrV(hd.dates[1]),
                                 end_date |-> StrV(hd.dates[Len(hd.dates)]),
                                 unit |-> StrV(a.unit)]),
                          DictV(build_pagination_info(
                                    Len(summaries), limit, current_page, hd.has_more,
                                    DictV([start_date |-> a.start_date.v,
                                           end_date |-> a.end_date.v]))),
                          e.now), cs))
    ELSE Return(build_response(summaries[1], HealthAnalysis(HealthInsights(summaries)),
                               DictV([date |-> StrV(hd.dates[1]), unit |-> StrV(a.unit)]),
                               None, e.now), cs)

\* "Collect data for each date"
HealthCollect(e, a, limit, current_page, hd) ==
    IF ~hd.ok THEN Raised("ValueError", "Invalid date format: {date_str}.", <<>>)
    ELSE HealthEnvelope(e, a, limit, current_page, hd,
                        [i \in 1..Len(hd.dates) |-> DaySummary(e, a, hd.dates[i])],
                        Flatten([i \in 1..Len(hd.dates) |-> DayCalls(a, hd.dates[i])]))

\* the range check without its upper bound
HealthLimitedBelow(e, a, current_page, limit) ==
    IF limit < HealthLimitMin
    THEN Return(build_error_response("Invalid limit: {limit}. Must be between 1 and 30.",
                                     "validation_error", <<>>, e.now), <<>>)
    ELSE HealthCollect(e, a, limit, current_page, HealthDates(e, a, current_page, limit))

HealthLimited(e, a, current_page, limit) ==
    IF limit < HealthLimitMin \/ limit > HealthLimitMax
    THEN Return(build_error_response("Invalid limit: {limit}. Must be between 1 and 30.",
                                     "validation_error", <<>>, e.now), <<>>)
    ELSE HealthCollect(e, a, limit, current_page, HealthDates(e, a, current_page, limit))

\* "Coerce limit to int if passed as string", "Set default limit"
HealthCoerced(e, a, current_page, coerced) ==
    IF ~coerced.ok
    THEN Return(build_error_response(
                    "Invalid limit value: '{limit}'. Must be a number between 1 and 30.",
                    "validation_error", <<>>, e.now), <<>>)
    ELSE HealthLimited(e, a, current_page, coerced.v)

HealthParsed(e, a, cp) ==
    IF ~cp.ok THEN Return(InvalidCursorError(e), <<>>)
    ELSE HealthCoerced(e, a, cp.page,
             IF a.limit.tag = "text" THEN int(a.limit.v)
             ELSE IF a.limit.tag = "None" THEN [ok |-> TRUE, v |-> HealthDefaultLimit]
             ELSE [ok |-> TRUE, v |-> a.limit.v])

\* the body of query_health_summary inside its try block
QueryHealthBody(e, a) == HealthParsed(e, a, CursorPage(a.cursor))

\* the except clauses of query_health_summary
HealthExcept(e, out) ==
    IF out.kind = "return" THEN out.value
    ELSE IF out.exc \in GarminAPIErrorClasses
    THEN build_error_response(out.message, "api_error",
             <<StrV("Check your Garmin Connect credentials"),
               StrV("Verify your internet connection")>>, e.now)
    ELSE build_error_response(out.message, "internal_error", <<>>, e.now)

HealthOutcome(e, out) ==
    [ret |-> [raised |-> FALSE, value |-> HealthExcept(e, out)], calls |-> out.calls]

\* query_health_summary: "assert ctx is not None" stands before the try
query_health_summary(e, a) ==
    IF ~a.ctx
    THEN [ret |-> [raised |-> TRUE, exc |-> "AssertionError"], calls |-> <<>>]
    ELSE HealthOutcome(e, QueryHealthBody(e, a))

---------------------------------------------------------------------------
(* Unit formatters (formatters.py).  A number is an int or a float; a      *)
(* finite float is held in thousandths, the others by their class.         *)

FloatMillis ==
    ("0.0" :> 0) @@ ("1.5" :> 1500) @@ ("2.5" :> 2500) @@ ("-2.5" :> -2500)
    @@ ("3661.5" :> 3661500) @@ ("5000.0" :> 5000000)

\* the real number a Python number stands for; 5e-324 is the smallest
\* positive float: not zero, but 1000 / 5e-324 overflows to inf
Num(x) ==
    CASE x.tag = "int" -> [cls |-> "finite", milli |-> x.v * 1000]
      [] x.tag = "float" /\ x.v = "NaN" -> [cls |-> "nan"]
      [] x.tag = "float" /\ x.v \in {"Infinity", "-Infinity"} -> [cls |-> "inf", lit |-> x.v]
      [] x.tag = "float" /\ x.v = "5e-324" -> [cls |-> "tiny"]
      [] OTHER -> [cls |-> "finite", milli |-> FloatMillis[x.v]]

\* x == 0
IsZero(x) == Num(x).cls = "finite" /\ Num(x).milli = 0

Abs(n) == IF n < 0 THEN 0 - n ELSE n
\* round(n / unit), ties to even, for n >= 0
RoundHalfEven(n, unit) ==
    IF 2 * (n % unit) > unit \/ (2 * (n % unit) = unit /\ (n \div unit) % 2 = 1)
    THEN (n \div unit) + 1
    ELSE n \div unit
TwoDigits(n) == IF n < 10 THEN <<"0", ToString(n)>> ELSE <<ToString(n)>>

\* f"{x:.2f}" of the number with the given count of hundredths, and
\* f"{x:.0f}"; a negative number that rounds to zero keeps its sign
Fixed2(negative, hundredths) ==
    (IF negative THEN <<"-">> ELSE <<>>)
    \o <<ToString(hundredths \div 100), ".">> \o TwoDigits(hundredths % 100)
Fixed0(negative, units) == (IF negative THEN <<"-">> ELSE <<>>) \o <<ToString(units)>>

\* f"{x:...f}" of a float that is not finite
NonFinite(n) == IF n.cls = "nan" THEN <<"nan">> ELSE IF n.lit = "Infinity" THEN <<"inf">> ELSE <<"-inf">>

NotAvailable == Return(StrV("N/A"), <<>>)
Formatted(chunks, unit) == Return(TextV(chunks \o <<" ", unit>>), <<>>)

\* f"{x * num / den:.2f} {unit}" in hundredths, for x = n in thousandths
ScaledFixed2(n, num, den, unit) ==
    CASE n.cls \in {"nan", "inf"} -> Formatted(NonFinite(n), unit)
      [] n.cls = "tiny" -> Formatted(Fixed2(FALSE, 0), unit)
      [] OTHER -> Formatted(Fixed2(n.milli < 0, RoundHalfEven(Abs(n.milli) * num, den)),
                            unit)

format_distance(meters) ==
    IF meters.tag = "None" THEN NotAvailable ELSE ScaledFixed2(Num(meters), 1, 10000, "km")

format_weight(grams) ==
    IF grams.tag = "None" THEN NotAvailable ELSE ScaledFixed2(Num(grams), 1, 10000, "kg")

format_speed(mps) ==
    IF mps.tag = "None" \/ IsZero(mps) THEN NotAvailable
    ELSE ScaledFixed2(Num(mps), 36, 100, "km/h")

ElevationOf(n) ==
    CASE n.cls \in {"nan", "inf"} -> Formatted(NonFinite(n), "m")
      [] n.cls = "tiny" -> Formatted(Fixed0(FALSE, 0), "m")
      [] OTHER -> Formatted(Fixed0(n.milli < 0, RoundHalfEven(Abs(n.milli), 1000)), "m")

format_elevation(meters) ==
    IF meters.tag = "None" THEN NotAvailable ELSE ElevationOf(Num(meters))

\* the three branches on hours > 0, minutes > 0
DurationText(hours, minutes, secs) ==
    IF hours > 0
    THEN Return(TextV(<<ToString(hours), "h", " ", ToString(minutes), "m", " ",
                        ToString(secs), "s">>), <<>>)
    ELSE IF minutes > 0
    THEN Return(TextV(<<ToString(minutes), "m", " ", ToString(secs), "s">>), <<>>)
    ELSE Return(TextV(<<ToString(secs), "s">>), <<>>)

\* int(seconds // 3600), int((seconds % 3600) // 60), int(seconds % 60):
\* nan // 3600 and inf // 3600 are nan, and int(nan) raises
DurationOf(n) ==
    CASE n.cls \in {"nan", "inf"} ->
            Raised("ValueError", "cannot convert float NaN to integer", <<>>)
      [] n.cls = "tiny" -> DurationText(0, 0, 0)
      [] OTHER -> DurationText(n.milli \div 3600000, (n.milli % 3600000) \div 60000,
                               (n.milli % 60000) \div 1000)

format_duration(seconds) ==
    IF seconds.tag = "None" THEN NotAvailable ELSE DurationOf(Num(seconds))

\* floor(1000 / mps) for mps in thousandths, not zero
FloorSecondsPerKm(milli) ==
    IF milli > 0 THEN 1000000 \div milli
    ELSE 0 - ((1000000 + Abs(milli) - 1) \div Abs(milli))

PaceText(whole_seconds) ==
    Return(TextV(<<ToString(whole_seconds \div 60), ":">> \o TwoDigits(whole_seconds % 60)
                 \o <<" ", "/km">>), <<>>)

\* seconds_per_km = 1000 / mps, int(seconds_per_km // 60) and
\* int(seconds_per_km % 60): 1000 / inf is 0, 1000 / 5e-324 is inf
PaceOf(n) ==
    CASE n.cls \in {"nan", "tiny"} ->
            Raised("ValueError", "cannot convert float NaN to integer", <<>>)
      [] n.cls = "inf" -> PaceText(0)
      [] OTHER -> PaceText(FloorSecondsPerKm(n.milli))

format_pace(mps) ==
    IF mps.tag = "None" \/ IsZero(mps) THEN NotAvailable ELSE PaceOf(Num(mps))

\* the formatter of the name
Formatter(name, x) ==
    CASE name = "format_distance" -> format_distance(x)
      [] name = "format_duration" -> format_duration(x)
      [] name = "format_elevation" -> format_elevation(x)
      [] name = "format_speed" -> format_speed(x)
      [] name = "format_pace" -> format_pace(x)
      [] name = "format_weight" -> format_weight(x)

FormatterNames ==
    {"format_distance", "format_duration", "format_elevation", "format_speed", "format_pace",
     "format_weight"}
\* float | int | None
SampleNumbers ==
    {None, IntV(0), IntV(-1), IntV(45), IntV(3661), IntV(5000)}
    \cup {FloatV(lit) : lit \in DOMAIN FloatMillis \cup {"NaN", "Infinity", "-Infinity", "5e-324"}}

---------------------------------------------------------------------------
(* Time utilities (time_utils.py).  A datetime at midnight is the ordinal  *)
(* of its day, counted from 2023-01-01 = 1 in the Gregorian calendar; a    *)
(* period is a sequence of characters.                                     *)

Years == 2023..2025
IsLeap(y) == (y % 4 = 0 /\ y % 100 # 0) \/ y % 400 = 0
DaysInYear(y) == IF IsLeap(y) THEN 366 ELSE 365
DaysInMonth(y, m) ==
    IF m = 2 THEN (IF IsLeap(y) THEN 29 ELSE 28)
    ELSE IF m \in {4, 6, 9, 11} THEN 30 ELSE 31

RECURSIVE DaysBeforeYear(_)
DaysBeforeYear(y) == IF y <= 2023 THEN 0 ELSE DaysBeforeYear(y - 1) + DaysInYear(y - 1)

RECURSIVE DaysBeforeMonth(_, _)
DaysBeforeMonth(y, m) ==
    IF m = 1 THEN 0 ELSE DaysBeforeMonth(y, m - 1) + DaysInMonth(y, m - 1)

\* datetime(year, month, day)
datetime(y, m, d) == DaysBeforeYear(y) + DaysBeforeMonth(y, m) + d
\* dt.year, dt.month
YearOf(dt) == CHOOSE y \in Years : DaysBeforeYear(y) < dt /\ dt <= DaysBeforeYear(y) + DaysInYear(y)
MonthOf(dt) ==
    CHOOSE m \in 1..12 :
        /\ datetime(YearOf(dt), m, 1) <= dt
        /\ dt < datetime(YearOf(dt), m, 1) + DaysInMonth(YearOf(dt), m)
\* dt.weekday(): Monday is 0 (2023-01-01 was a Sunday)
weekday(dt) == (dt + 5) % 7

TupleV(t) == [tag |-> "tuple", v |-> t]

\* str.strip() of blanks
RECURSIVE strip(_)
strip(s) ==
    IF s = <<>> THEN s
    ELSE IF s[1] = " " THEN strip(Tail(s))
    ELSE IF s[Len(s)] = " " THEN strip(SubSeq(s, 1, Len(s) - 1))
    ELSE s

AllDigits(s) == \A i \in 1..Len(s) : s[i] \in DigitSet
\* the position of the first sep in s, 0 when there is none
Find(s, sep) ==
    IF \E i \in 1..Len(s) : s[i] = sep
    THEN CHOOSE i \in 1..Len(s) : s[i] = sep /\ \A j \in 1..(i - 1) : s[j] # sep
    ELSE 0

\* s.split(sep, 1) of a text that holds sep
SplitOnce(s, sep) == <<SubSeq(s, 1, Find(s, sep) - 1), SubSeq(s, Find(s, sep) + 1, Len(s))>>

DateFields(y, m, d) ==
    IF /\ Len(y) = 4 /\ AllDigits(y)
       /\ Len(m) \in {1, 2} /\ AllDigits(m)
       /\ Len(d) \in {1, 2} /\ AllDigits(d)
    THEN IF /\ Number(y) \in Years
            /\ Number(m) \in 1..12
            /\ Number(d) \in 1..DaysInMonth(Number(y), Number(m))
         THEN [ok |-> TRUE, v |-> datetime(Number(y), Number(m), Number(d))]
         ELSE [ok |-> FALSE]
    ELSE [ok |-> FALSE]

\* datetime.strptime(text, "%Y-%m-%d")
strptime(text) ==
    IF Find(text, "-") = 0 THEN [ok |-> FALSE]
    ELSE IF Find(SplitOnce(text, "-")[2], "-") = 0 THEN [ok |-> FALSE]
    ELSE DateFields(SplitOnce(text, "-")[1],
                    SplitOnce(SplitOnce(text, "-")[2], "-")[1],
                    SplitOnce(SplitOnce(text, "-")[2], "-")[2])

RelativePeriod(today, days) ==
    IF days.ok THEN Return(TupleV(<<today - days.v, today>>), <<>>)
    ELSE Raised("ValueError", "Invalid relative period format: {period}", <<>>)

AbsoluteRange(start_date, end_date) ==
    IF start_date.ok /\ end_date.ok /\ start_date.v <= end_date.v
    THEN Return(TupleV(<<start_date.v, end_date.v>>), <<>>)
    ELSE Raised("ValueError",
                "Invalid absolute date range format: {period}. Use YYYY-MM-DD:YYYY-MM-DD", <<>>)

NamedPeriod(today, period) ==
    IF period = <<"t", "h", "i", "s", "-", "w", "e", "e", "k">>
    THEN Return(TupleV(<<today - weekday(today), today>>), <<>>)
    ELSE IF period = <<"t", "h", "i", "s", "-", "m", "o", "n", "t", "h">>
    THEN Return(TupleV(<<datetime(YearOf(today), MonthOf(today), 1), today>>), <<>>)
    ELSE IF period = <<"t", "h", "i", "s", "-", "y", "e", "a", "r">>
    THEN Return(TupleV(<<datetime(YearOf(today), 1, 1), today>>), <<>>)
    ELSE IF Find(period, ":") # 0
    THEN AbsoluteRange(strptime(strip(SplitOnce(period, ":")[1])),
                       strptime(strip(SplitOnce(period, ":")[2])))
    ELSE Raised("ValueError", "Invalid period format: {period}.", <<>>)

\* parse_time_range: every period that ends with "d" is a relative one
parse_time_range(today, period) ==
    IF period # <<>> /\ period[Len(period)] = "d"
    THEN RelativePeriod(today, int(SubSeq(period, 1, Len(period) - 1)))
    ELSE IF period = <<"y", "t", "d">>
    THEN Return(TupleV(<<datetime(YearOf(today), 1, 1), today>>), <<>>)
    ELSE NamedPeriod(today, period)

\* a pass that ends the week six days after the clamped start
WeekOfFromStart(start_date, end_date, current) ==
    <<IF current - weekday(current) < start_date THEN start_date
      ELSE current - weekday(current),
      IF (IF current - weekday(current) < start_date THEN start_date
          ELSE current - weekday(current)) + 6 > end_date THEN end_date
      ELSE (IF current - weekday(current) < start_date THEN start_date
            ELSE current - weekday(current)) + 6>>

\* one pass of the loop: the week of current, clamped to the range
WeekOf(start_date, end_date, current) ==
    <<IF current - weekday(current) < start_date THEN start_date
      ELSE current - weekday(current),
      IF current - weekday(current) + 6 > end_date THEN end_date
      ELSE current - weekday(current) + 6>>

RECURSIVE WeeksFrom(_, _, _)
WeeksFrom(start_date, end_date, current) ==
    IF current <= end_date
    THEN <<WeekOf(start_date, end_date, current)>>
         \o WeeksFrom(start_date, end_date, WeekOf(start_date, end_date, current)[2] + 1)
    ELSE <<>>

\* get_week_ranges
get_week_ranges(start_date, end_date) == WeeksFrom(start_date, end_date, start_date)

\* periods: the documented forms and texts that are none of them
SamplePeriods ==
    {<<"7", "d">>,
     <<"3", "0", "d">>,
     <<"0", "d">>,
     <<"-", "3", "d">>,
     <<"d">>,
     <<"y", "t", "d">>,
     <<"i", "n", "v", "a", "l", "i", "d">>,
     <<"7", "D">>,
     <<"j", "u", "n", "k">>,
     <<>>,
     <<"t", "h", "i", "s", "-", "w", "e", "e", "k">>,
     <<"t", "h", "i", "s", "-", "m", "o", "n", "t", "h">>,
     <<"t", "h", "i", "s", "-", "y", "e", "a", "r">>,
     <<"2", "0", "2", "4", "-", "0", "1", "-", "0", "1", ":", "2", "0", "2", "4", "-", "0", "1", "-", "0", "3">>,
     <<"2", "0", "2", "4", "-", "0", "1", "-", "0", "5", ":", "2", "0", "2", "4", "-", "0", "1", "-", "0", "5">>,
     <<"2", "0", "2", "4", "-", "0", "1", "-", "0", "3", ":", "2", "0", "2", "4", "-", "0", "1", "-", "0", "1">>,
     <<"2", "0", "2", "4", "-", "0", "2", "-", "3", "0", ":", "2", "0", "2", "4", "-", "0", "3", "-", "0", "1">>,
     <<"2", "0", "2", "4", "-", "1", "-", "1", " ", ":", " ", "2", "0", "2", "4", "-", "0", "2", "-", "2", "9">>,
     <<"2", "0", "2", "4", "-", "0", "1", "-", "0", "1", ":">>}
\* the days datetime.now() falls on
Todays ==
    {datetime(2024, 1, 1), datetime(2024, 1, 3), datetime(2024, 2, 29), datetime(2024, 3, 10),
     datetime(2025, 1, 5)}
\* the days a range starts and ends on
RangeDays == datetime(2023, 12, 27)..datetime(2024, 1, 17)

---------------------------------------------------------------------------
(* Resource handlers (server.py) *)

\* training_readiness_resource: query_health_summary(date="today", ...) with
\* no ctx argument
training_readiness_resource(e) ==
    query_health_summary(e, [date |-> StrV("today"), start_date |-> None, end_date |-> None,
                             cursor |-> None, limit |-> None,
                             include_body_battery |-> TRUE,
                             include_training_readiness |-> TRUE,
                             include_training_status |-> TRUE,
                             unit |-> "metric", ctx |-> FALSE])

---------------------------------------------------------------------------
(* Requests and environments *)

UtcNow(us) == DatetimeV("2025-10-15", "14:30:00", us, "UTC")
Clock == {UtcNow("000000"), UtcNow("123456")}

AllMethods ==
    {"get_activities", "get_activities_by_date", "get_activities_fordate", "get_activity",
     "get_last_activity", "get_stats", "get_user_summary", "get_training_readiness",
     "get_training_status", "get_body_battery", "get_body_battery_events"}

NoError == [cls |-> "none", status |-> "none", marks |-> {}]
Today == Len(DayNames)

\* an upstream that answers every call, with n activities listed
Healthy(n, now) ==
    [credentials |-> "ok", listing |-> n, failing |-> {}, raw_error |-> NoError,
     now |-> now, today |-> Today]

\* the environments of the pure functions
PureEnv == Healthy(0, UtcNow("000000"))
PureEnvs == {PureEnv}

\* the environments of query_activities
ActivityEnvs ==
    {Healthy(n, UtcNow("000000")) : n \in 0..MaxRecords}
    \cup {[Healthy(MaxRecords, UtcNow("000000")) EXCEPT !.failing = AllMethods, !.raw_error = r] :
            r \in RawErrors}
    \cup {[Healthy(MaxRecords, UtcNow("000000")) EXCEPT !.credentials = c] :
            c \in {"unconfigured", "login_failed"}}

\* the environments of query_health_summary
HealthEnvs ==
    {Healthy(0, UtcNow("000000"))}
    \cup {[Healthy(0, UtcNow("000000")) EXCEPT !.failing = f, !.raw_error = r] :
            f \in {AllMethods, {"get_stats"}, {"get_training_readiness", "get_body_battery_events"}},
            r \in {[cls |-> "GarthHTTPError", status |-> "429", marks |-> {"429"}],
                   [cls |-> "ConnectionError", status |-> "none", marks |-> {}]}}

\* the environments of a direct safe_call
SafeCallEnvs ==
    {Healthy(n, UtcNow("000000")) : n \in 0..MaxRecords}
    \cup {[Healthy(MaxRecords, UtcNow("000000")) EXCEPT !.failing = f, !.raw_error = r] :
            f \in {AllMethods, {"get_stats"}}, r \in RawErrors}

\* every symbol a client can put into a cursor string
WireAlphabet == TextAlphabet \cup {"-"}
RECURSIVE SeqsUpTo(_, _)
SeqsUpTo(S, n) ==
    IF n = 0 THEN {<<>>}
    ELSE LET shorter == SeqsUpTo(S, n - 1)
         IN  shorter \cup {Append(t, x) : t \in {u \in shorter : Len(u) = n - 1}, x \in S}

SampleFilters ==
    {None, DictV(<<>>), DictV([activity_type |-> "running"]),
     DictV([start_date |-> "2024-01-01", end_date |-> "2024-01-04"])}

\* the tokens encode_cursor produces for the pages and filter sets modelled
EncodedTokens ==
    {encode_cursor(p, f) : p \in 0..MaxPage, f \in {None} \cup {DictV(g) : g \in FilterSets}}

\* tokens after tampering: one symbol dropped or overwritten
Tampered ==
    UNION {{SubSeq(t, 1, i - 1) \o SubSeq(t, i + 1, Len(t)) : i \in 1..Len(t)}
           \cup {[t EXCEPT ![i] = x] : i \in 1..Len(t), x \in {"-", "}", "0", "page", "running"}}
           : t \in {encode_cursor(p, f) : p \in 1..MaxPage, f \in SampleFilters}}

ForgedTokens == SeqsUpTo(WireAlphabet, MaxGarbageLen) \cup Tampered

\* filters of a cursor that another query's response carried
ForeignFilters ==
    {DictV([activity_type |-> "running"]),
     DictV([start_date |-> "2024-01-02", end_date |-> "2024-01-02"])}

\* cursor arguments of the tools: none, the empty string, text that is no
\* token, a truncated token, and tokens of earlier responses
CursorArgs ==
    {None, TextV(<<>>), TextV(<<"-">>), TextV(Tail(encode_cursor(2, DictV(<<>>))))}
    \cup {TextV(encode_cursor(p, DictV(<<>>))) : p \in 2..MaxPage}
    \cup {TextV(encode_cursor(2, f)) : f \in ForeignFilters}

NaiveTime == DatetimeV("2025-10-15", "14:30:00", "000000", "naive")
\* a datetime inside a dict inside a list inside a dict
NestedData ==
    DictV([laps |-> ListV(<<DictV([start |-> UtcNow("123456")]), IntV(-7), IntV(120)>>)])
\* data the tools hand to build_response: plain JSON values, datetimes nested
\* in lists and dicts, integer keys, strings with spaces, a newline, a
\* quote, floats finite and not, and values json cannot encode
SampleData ==
    {DictV([name |-> StrV("Morning Run")]),
     DictV([activity_date |-> NaiveTime]),
     ListV(<<>>), None,
     NestedData,
     IntKeyDictV([n \in {1, 2} |-> IF n = 1 THEN NaiveTime ELSE BoolV(TRUE)]),
     DictV([name |-> TextV(<<"Morning", " ", " ", "Run">>)]),
     DictV([name |-> TextV(<<"Line", "\n", "say", " ", "\"", "hi", "\"", "\\">>)]),
     DictV([pace |-> FloatV("1.5")]),
     DictV([pace |-> FloatV("NaN")]),
     DictV([tags |-> ObjectV]),
     DictV([self |-> CycleV])}
SampleAnalysis ==
    {None, DictV(<<>>), DictV([insights |-> ListV(<<>>)]),
     DictV([insights |-> ListV(<<StrV("No activities found")>>)]),
     DictV([insights |-> ListV(<<StrV("Last run"), NaiveTime>>)])}
SampleMetadata ==
    {None, DictV(<<>>), DictV([unit |-> StrV("metric")]),
     DictV([unit |-> StrV("metric"), fetched_at |-> StrV("yesterday")]),
     DictV([since |-> DatetimeV("2025-10-15", "14:30:00", "000000", "naive")]),
     DictV([tags |-> ObjectV])}
SamplePagination ==
    {None}
    \cup {DictV(build_pagination_info(n, 2, 1, m, DictV(<<>>))) : n \in 0..2, m \in BOOLEAN}

\* start_date and end_date of a health query: none, a range, one day, a
\* start after the end, an end alone
DateRanges ==
    {<<None, None>>, <<StrV("2024-01-01"), StrV("2024-01-04")>>,
     <<StrV("2024-01-02"), StrV("2024-01-02")>>, <<StrV("2024-01-03"), StrV("2024-01-02")>>,
     <<None, StrV("2024-01-04")>>}
HealthLimits ==
    {None, IntV(0), IntV(1), IntV(2), IntV(30), IntV(31),
     TextV(<<"2">>), TextV(<<"-", "1">>), TextV(<<"running">>)}
\* include_body_battery, include_training_readiness, include_training_status
Includes == {<<TRUE, TRUE, TRUE>>, <<FALSE, FALSE, FALSE>>, <<FALSE, TRUE, FALSE>>}
HealthRequest(date, range, cursor, limit, inc, ctx) ==
    [tool |-> "query_health_summary", date |-> date, start_date |-> range[1],
     end_date |-> range[2], cursor |-> cursor, limit |-> limit,
     include_body_battery |-> inc[1], include_training_readiness |-> inc[2],
     include_training_status |-> inc[3], unit |-> "metric", ctx |-> ctx]

Requests ==
    [tool : {"encode_cursor"}, page : 1..MaxPage,
     filters : {None} \cup {DictV(g) : g \in FilterSets}]
    \cup [tool : {"decode_cursor"}, token : ForgedTokens]
    \cup [tool : {"build_pagination_info"}, returned_count : 0..2, limit : {1, 2, 20},
          current_page : 1..MaxPage, has_more : BOOLEAN, filters : SampleFilters]
    \cup [tool : {"build_response"}, data : SampleData, analysis : SampleAnalysis,
          metadata : SampleMetadata, pagination : SamplePagination]
    \cup [tool : {"build_error_response"},
          message : {StrV("Activity not found"), TextV(<<"Invalid", " ", " ", "cursor">>),
                     TextV(<<"Line", "\n", "two">>)},
          error_type : {Omitted, StrV("not_found")},
          suggestions : {Omitted, None, ListV(<<>>),
                         ListV(<<StrV("Try this"), StrV("Try that")>>)}]
    \cup [tool : {"formatter"}, name : FormatterNames, value : SampleNumbers]
    \cup [tool : {"safe_call"}, method : {"get_activity", "get_last_activity", "get_stats"},
          args : {<<a>> : a \in 1..(MaxRecords + 1)}]
    \cup [tool : {"parse_time_range"}, period : SamplePeriods]
    \cup [tool : {"get_week_ranges"}, start_date : RangeDays, end_date : RangeDays]
    \cup [tool : {"query_activities"},
          activity_id : {None, IntV(1), IntV(MaxRecords + 1)},
          start_date : {None, StrV("2024-01-01")},
          end_date : {None, StrV("2024-01-04")},
          date : {None, StrV("today"), StrV("someday")},
          cursor : CursorArgs,
          limit : {None, IntV(-1), IntV(0), IntV(1), IntV(2), IntV(50), IntV(51)},
          activity_type : {"", "running"},
          unit : {"metric"}]
    \cup {HealthRequest(d, r, c, l, i, TRUE) :
            d \in {None, StrV("today"), StrV("someday")}, r \in DateRanges,
            c \in CursorArgs, l \in HealthLimits, i \in Includes}
    \cup {HealthRequest(None, r, c, None, <<TRUE, TRUE, TRUE>>, FALSE) :
            r \in DateRanges, c \in CursorArgs}
    \cup [tool : {"training_readiness_resource"}]

EnvsOf(r) ==
    CASE r.tool = "query_activities" -> ActivityEnvs
      [] r.tool \in {"query_health_summary", "training_readiness_resource"} -> HealthEnvs
      [] r.tool \in {"build_response", "build_error_response"} -> {[Healthy(0, UtcNow("000000")) EXCEPT !.now = n] : n \in Clock}
      [] r.tool = "safe_call" -> SafeCallEnvs
      [] r.tool = "parse_time_range" -> {[PureEnv EXCEPT !.today = t] : t \in Todays}
      [] OTHER -> PureEnvs

NoRet == [pending |-> TRUE]

---------------------------------------------------------------------------
(* The state machine *)

Init ==
    /\ pc = "ready"
    /\ req \in Requests
    /\ env \in EnvsOf(req)
    /\ wrapper = "None"
    /\ ret = NoRet
    /\ calls = <<>>
    /\ wire = NoRet
    /\ heap = NoRet
    /\ callers = NoRet

Ready(tool) == pc = "ready" /\ req.tool = tool

FinishWith(r, cs, w, h) ==
    /\ pc' = "done"
    /\ ret' = r
    /\ calls' = cs
    /\ wire' = w
    /\ heap' = h
    /\ UNCHANGED <<req, env, callers>>

Finish(r, cs) == FinishWith(r, cs, NoRet, NoRet)

\* encode, then decode what was encoded
RoundTrip(token) == [token |-> token, decoded |-> decode_cursor(token)]

FinishTool(out) == Finish(out.ret, out.calls)

EncodeCursor ==
    /\ Ready("encode_cursor")
    /\ Finish(RoundTrip(encode_cursor(req.page, req.filters)), <<>>)
    /\ UNCHANGED wrapper

DecodeCursor ==
    /\ Ready("decode_cursor")
    /\ Finish(decode_cursor(req.token), <<>>)
    /\ UNCHANGED wrapper

BuildPaginationInfo ==
    /\ Ready("build_pagination_info")
    /\ Finish(build_pagination_info(req.returned_count, req.limit, req.current_page,
                                    req.has_more, req.filters), <<>>)
    /\ UNCHANGED wrapper

BuildResponse ==
    /\ Ready("build_response")
    /\ FinishWith(
          build_response(req.data, req.analysis, req.metadata, req.pagination, env.now),
          <<>>,
          ResponseText(build_response(req.data, req.analysis, req.metadata, req.pagination,
                                      env.now)),
          ArgumentsAfter(req.data, req.analysis, req.metadata, req.pagination, env.now))
    /\ UNCHANGED wrapper

FormatUnit ==
    /\ Ready("formatter")
    /\ Finish(Formatter(req.name, req.value), <<>>)
    /\ UNCHANGED wrapper

\* error_type left out takes the default of the signature
SafeCall ==
    /\ Ready("safe_call")
    /\ Finish(safe_call(env, req.method, req.args), <<Call(req.method, req.args)>>)
    /\ UNCHANGED wrapper

ParseTimeRange ==
    /\ Ready("parse_time_range")
    /\ Finish(parse_time_range(env.today, req.period), <<>>)
    /\ UNCHANGED wrapper

GetWeekRanges ==
    /\ Ready("get_week_ranges")
    /\ Finish(Return(ListV(get_week_ranges(req.start_date, req.end_date)), <<>>), <<>>)
    /\ UNCHANGED wrapper

BuildErrorResponse ==
    /\ Ready("build_error_response")
    /\ FinishWith(
          ErrorDict(req.message, ArgOrDefault(req.error_type, StrV("error")),
                    ArgOrDefault(req.suggestions, None), env.now),
          <<>>,
          ErrorText(ErrorDict(req.message, ArgOrDefault(req.error_type, StrV("error")),
                              ArgOrDefault(req.suggestions, None), env.now)),
          NoRet)
    /\ UNCHANGED wrapper

QueryActivities ==
    /\ Ready("query_activities")
    /\ FinishTool(query_activities(env, wrapper, req))
    /\ wrapper' = query_activities(env, wrapper, req).wrapper

QueryHealthSummary ==
    /\ Ready("query_health_summary")
    /\ FinishTool(query_health_summary(env, req))
    /\ UNCHANGED wrapper

TrainingReadinessResource ==
    /\ Ready("training_readiness_resource")
    /\ FinishTool(training_readiness_resource(env))
    /\ UNCHANGED wrapper

\* the client sends the same request again
Retry ==
    /\ pc = "done"
    /\ pc' = "ready"
    /\ ret' = NoRet
    /\ calls' = <<>>
    /\ wire' = NoRet
    /\ heap' = NoRet
    /\ UNCHANGED <<req, env, wrapper, callers>>

Next ==
    \/ EncodeCursor
    \/ DecodeCursor
    \/ BuildPaginationInfo
    \/ BuildResponse
    \/ BuildErrorResponse
    \/ FormatUnit
    \/ SafeCall
    \/ ParseTimeRange
    \/ GetWeekRanges
    \/ QueryActivities
    \/ QueryHealthSummary
    \/ TrainingReadinessResource
    \/ Retry

Spec == Init /\ [][Next]_vars

---------------------------------------------------------------------------
(* Two callers page through different queries of query_activities against *)
(* one server process: they share the module-level wrapper and the        *)
(* upstream, and each sends back the cursor of its last response.         *)

Callers == {"A", "B"}

\* the first page request of a paginated query: a date range or the general
\* listing, with a page size and a type filter
PagingQueries ==
    {[tool |-> "query_activities", activity_id |-> None, start_date |-> r[1],
      end_date |-> r[2], date |-> None, cursor |-> None, limit |-> l, activity_type |-> t,
      unit |-> "metric"] :
        r \in {<<None, None>>, <<StrV("2024-01-01"), StrV("2024-01-04")>>},
        l \in {IntV(1), IntV(2)}, t \in {"", "running"}}

\* the cursor a client takes from a response, None when there is none
NextCursor(r) ==
    IF IsSuccessEnvelope(r.value) /\ "pagination" \in DOMAIN r.value
    THEN r.value["pagination"].v.cursor
    ELSE None

Received(caller, r) ==
    [caller EXCEPT !.responses = Append(@, r),
                   !.cursor = NextCursor(r),
                   !.paging = NextCursor(r).tag # "None"]

Init18 ==
    /\ pc = "serving"
    /\ req = NoRet
    /\ env \in ActivityEnvs
    /\ wrapper = "None"
    /\ ret = NoRet
    /\ calls = <<>>
    /\ wire = NoRet
    /\ heap = NoRet
    /\ callers \in {[of |-> [id \in Callers |->
                                [query |-> IF id = "A" THEN qa ELSE qb, cursor |-> None,
                                 responses |-> <<>>, paging |-> TRUE]],
                      served |-> <<>>] : qa \in PagingQueries, qb \in PagingQueries}
    /\ callers.of["A"].query # callers.of["B"].query

ServePage(id, out) ==
    /\ wrapper' = out.wrapper
    /\ ret' = out.ret
    /\ calls' = out.calls
    /\ callers' = [of |-> [callers.of EXCEPT ![id] = Received(@, out.ret)],
                   served |-> Append(callers.served, id)]
    /\ UNCHANGED <<pc, req, env, wire, heap>>

\* one caller's next page request runs whole: the tool never suspends
\* between reading the wrapper and returning
PageRequestOf(id) ==
    /\ pc = "serving"
    /\ callers.of[id].paging
    /\ ServePage(id, query_activities(env, wrapper,
                     [callers.of[id].query EXCEPT !.cursor = callers.of[id].cursor]))

Next18 == \E id \in Callers : PageRequestOf(id)

Spec18 == Init18 /\ [][Next18]_vars

---------------------------------------------------------------------------
(* One client follows the cursors of a paginated query from its first page *)
(* to the response that carries no cursor, with unchanged parameters,      *)
(* against an upstream that does not change.                               *)

\* the first page request of a date-range health summary
HealthPagingQueries ==
    {HealthRequest(None, r, None, l, i, TRUE) :
        r \in {<<StrV("2024-01-01"), StrV("2024-01-04")>>,
               <<StrV("2024-01-02"), StrV("2024-01-02")>>,
               <<StrV("2024-01-02"), StrV("2024-01-03")>>},
        l \in {IntV(1), IntV(2), IntV(3), TextV(<<"2">>), None},
        i \in {<<FALSE, FALSE, FALSE>>, <<FALSE, TRUE, FALSE>>}}

Traversal(query) ==
    [query |-> query, cursor |-> None, responses |-> <<>>, page_calls |-> <<>>, paging |-> TRUE]

InitPaging ==
    /\ pc = "paging"
    /\ req = NoRet
    /\ callers \in {Traversal(q) : q \in PagingQueries \cup HealthPagingQueries}
    /\ env \in EnvsOf(callers.query)
    /\ wrapper = "None"
    /\ ret = NoRet
    /\ calls = <<>>
    /\ wire = NoRet
    /\ heap = NoRet

\* the client keeps the response and sends its cursor with the next request
FollowCursor(out) ==
    /\ ret' = out.ret
    /\ calls' = out.calls
    /\ callers' = [callers EXCEPT !.responses = Append(@, out.ret),
                                  !.page_calls = Append(@, out.calls),
                                  !.cursor = NextCursor(out.ret),
                                  !.paging = NextCursor(out.ret).tag # "None"]
    /\ UNCHANGED <<pc, req, env, wire, heap>>

NextActivityPage ==
    /\ pc = "paging"
    /\ callers.paging
    /\ callers.query.tool = "query_activities"
    /\ \E out \in {query_activities(env, wrapper,
                                     [callers.query EXCEPT !.cursor = callers.cursor])} :
          FollowCursor(out) /\ wrapper' = out.wrapper

NextHealthPage ==
    /\ pc = "paging"
    /\ callers.paging
    /\ callers.query.tool = "query_health_summary"
    /\ \E out \in {query_health_summary(env, [callers.query EXCEPT !.cursor = callers.cursor])} :
          FollowCursor(out) /\ UNCHANGED wrapper

NextPaging ==
    \/ NextActivityPage
    \/ NextHealthPage

SpecPaging == InitPaging /\ [][NextPaging]_vars

---------------------------------------------------------------------------
(* Properties *)

Done(tool) == pc = "done" /\ req.tool = tool

\* C1: cursor round trip.  For every page >= 1 and every filter set (absent,
\* or a mapping of string keys to string values), decoding the encoded
\* cursor succeeds and yields exactly that page and those filters; filters
\* absent at encode time decode to none.
C1_CursorRoundTrip ==
    Done("encode_cursor") =>
        /\ ret.decoded.ok
        /\ ret.decoded.data["page"] = req.page
        /\ CursorGet(ret.decoded.data, "filters") = req.filters

C1_Witness ==
    /\ Done("encode_cursor")
    /\ req.page = MaxPage
    /\ req.filters.tag = "dict"
    /\ DOMAIN req.filters.v = FilterKeySet
    /\ ret.decoded.ok

\* C2: pagination monotonicity.  build_pagination_info gives cursor None if
\* and only if has_more is False; when has_more is True the cursor decodes
\* to page current_page + 1 with the filters passed in; limit and
\* returned_count come out unchanged as limit and returned.
C2_PaginationMonotonicity ==
    Done("build_pagination_info") =>
        /\ (ret.cursor.tag = "None") <=> ~req.has_more
        /\ ret.has_more = req.has_more
        /\ ret.limit = req.limit
        /\ ret.returned = req.returned_count
        /\ req.has_more =>
              /\ ret.cursor.tag = "text"
              /\ decode_cursor(ret.cursor.v).ok
              /\ decode_cursor(ret.cursor.v).data["page"] = req.current_page + 1
              /\ CursorGet(decode_cursor(ret.cursor.v).data, "filters") = req.filters

C2_Witness ==
    /\ Done("build_pagination_info")
    /\ req.has_more
    /\ req.current_page = MaxPage
    /\ req.filters.tag = "dict"
    /\ DOMAIN req.filters.v # {}
    /\ ret.cursor.tag = "text"

---------------------------------------------------------------------------
(* Vocabulary of the paginated tools' properties *)

Max0(n) == IF n < 0 THEN 0 ELSE n
Min(a, b) == IF a < b THEN a ELSE b

\* the upstream calls of the invocation that went through safe_call
IsSafeCall(c) == c.method # "login"
SafeCalls == SelectSeq(calls, IsSafeCall)
SomeCallFailed == \E i \in 1..Len(SafeCalls) : SafeCalls[i].method \in env.failing

RangeMode == Truthy(req.start_date) /\ Truthy(req.end_date)
GeneralMode ==
    /\ ~RangeMode
    /\ ~Truthy(req.date)
    /\ (req.cursor.tag # "None" \/ req.limit.tag # "None")

\* query_activities in one of its two paginated modes, with a client
PaginatedActivities ==
    /\ Done("query_activities")
    /\ req.activity_id.tag = "None"
    /\ (RangeMode \/ GeneralMode)
    /\ env.credentials = "ok"

\* query_health_summary called as a tool
HealthTool == Done("query_health_summary") /\ req.ctx
HealthRange == HealthTool /\ ~Truthy(req.date) /\ RangeMode

\* the cursor of an earlier response for page p
IssuedPage(cursor, p) == cursor.tag = "text" /\ cursor.v = encode_cursor(p, DictV(<<>>))
HasPage(cursor) == cursor.tag = "None" \/ \E p \in 1..MaxPage : IssuedPage(cursor, p)
PageOf(cursor) ==
    IF cursor.tag = "None" THEN 1 ELSE CHOOSE p \in 1..MaxPage : IssuedPage(cursor, p)
\* a cursor string that encode_cursor did not produce
NotEncoded(cursor) == cursor.tag = "text" /\ cursor.v \notin EncodedTokens

ErrorOf(r) == r.error
ErrorType(r) == ErrorOf(r)["type"].v
IsValidationError(r) ==
    /\ ~r.raised
    /\ IsErrorEnvelope(r.value)
    /\ ErrorType(r.value) = "validation_error"
WellFormedError(r) ==
    /\ IsErrorEnvelope(r)
    /\ {"type", "message", "timestamp"} \subseteq DOMAIN ErrorOf(r)
    /\ DOMAIN ErrorOf(r) \subseteq {"type", "message", "timestamp", "suggestions"}

PageBlock == ret.value["pagination"].v
ReturnedActivities == ret.value["data"].v.activities.v

\* a page request of query_activities that passes validation and whose
\* upstream answers
PageLimit == IF req.limit.tag = "None" THEN ActivityDefaultLimit ELSE req.limit.v
PageRequest ==
    /\ PaginatedActivities
    /\ HasPage(req.cursor)
    /\ PageLimit \in ActivityLimitMin..ActivityLimitMax
    /\ env.failing = {}
Offset == (PageOf(req.cursor) - 1) * PageLimit
Fetched(c) == UpstreamValue(env, c.method, c.args).v

\* C3 as stated: for a cursor resolving to page p and a limit in 1..50 the
\* paginated activity orchestrator asks the upstream for limit + 1 records
\* starting at offset (p - 1) * limit, has_more is true exactly when more
\* than limit records came back, and the first limit of them are returned.
C3_AsStated ==
    PageRequest =>
        /\ Len(SafeCalls) = 1
        /\ SafeCalls[1].method = "get_activities"
        /\ SafeCalls[1].args[1] = Offset
        /\ SafeCalls[1].args[2] = PageLimit + 1
        /\ PageBlock.has_more <=> Len(Fetched(SafeCalls[1])) > PageLimit
        /\ ReturnedActivities = PySlice(Fetched(SafeCalls[1]), 0, PageLimit)

\* C3: page arithmetic of the paginated activity orchestrators.  For page p
\* and a limit in 1..50 the general listing asks the upstream for limit + 1
\* records from offset (p - 1) * limit; the date-range listing asks for the
\* whole range and takes that window from the result in memory.  In both
\* the page holds the records offset+1 .. offset+limit of the listing that
\* exist, has_more is true exactly when the listing goes beyond
\* offset + limit, and the next cursor is page p + 1 or null.
C3_PageArithmetic ==
    PageRequest =>
        /\ GeneralMode =>
              SafeCalls = <<Call("get_activities",
                                 <<Offset, PageLimit + 1, req.activity_type>>)>>
        /\ RangeMode =>
              SafeCalls = <<Call("get_activities_by_date",
                                 <<req.start_date.v, req.end_date.v, req.activity_type>>)>>
        /\ ReturnedActivities =
              [i \in 1..Min(PageLimit, Max0(env.listing - Offset)) |-> ActivityV(Offset + i)]
        /\ PageBlock.has_more <=> env.listing > Offset + PageLimit
        /\ PageBlock.limit = PageLimit
        /\ PageBlock.returned = Len(ReturnedActivities)
        /\ ~PageBlock.has_more => PageBlock.cursor.tag = "None"
        /\ PageBlock.has_more =>
              /\ PageBlock.cursor.tag = "text"
              /\ decode_cursor(PageBlock.cursor.v).ok
              /\ decode_cursor(PageBlock.cursor.v).data["page"] = PageOf(req.cursor) + 1

C3_Witness ==
    /\ PageRequest
    /\ RangeMode
    /\ PageOf(req.cursor) = 2
    /\ PageLimit = 2
    /\ env.listing = MaxRecords
    /\ Len(ReturnedActivities) = 2
    /\ PageBlock.has_more

\* C4: cursor tamper detection.  Decoding a string that encode_cursor did
\* not produce fails with the invalid-cursor error, and a paginated tool
\* handed such a cursor returns a validation_error envelope.
C4_CursorTamperDetection ==
    /\ (Done("decode_cursor") /\ req.token \notin EncodedTokens) => ret = InvalidCursor
    /\ ((PaginatedActivities \/ HealthTool) /\ NotEncoded(req.cursor)) =>
          IsValidationError(ret)

\* C5: fail-fast validation.  A paginated tool whose cursor cannot be
\* decoded or whose limit is out of range reports a validation_error
\* envelope and makes no safe_call before it returns.
BadCursor == NotEncoded(req.cursor) /\ req.cursor.v # <<>>
BadActivityLimit ==
    req.limit.tag = "int" /\ req.limit.v \notin ActivityLimitMin..ActivityLimitMax
BadHealthLimit ==
    \/ req.limit.tag = "int" /\ req.limit.v \notin HealthLimitMin..HealthLimitMax
    \/ req.limit.tag = "text" /\ ~int(req.limit.v).ok
    \/ req.limit.tag = "text" /\ int(req.limit.v).ok
          /\ int(req.limit.v).v \notin HealthLimitMin..HealthLimitMax
C5_FailFastValidation ==
    /\ (PaginatedActivities /\ (BadCursor \/ BadActivityLimit)) =>
          (IsValidationError(ret) /\ SafeCalls = <<>>)
    /\ (HealthTool /\ (BadCursor \/ BadHealthLimit)) =>
          (IsValidationError(ret) /\ SafeCalls = <<>>)

\* C6: limit bounds of activity listings.  query_activities in a paginated
\* mode with a limit outside 1..50, zero and negatives included, returns a
\* validation error; the limit is never replaced by another page size.
C6_ActivityLimitBounds ==
    (PaginatedActivities /\ BadActivityLimit /\ req.cursor.tag = "None") =>
        IsValidationError(ret)

\* C7: error propagation.  Every invocation of a tool entry point, also
\* through the server's resource handlers, returns a success envelope or a
\* well-formed error envelope; no exception leaves the tool.
C7_ErrorPropagation ==
    (pc = "done"
     /\ (req.tool \in {"query_activities", "training_readiness_resource"} \/ HealthTool)) =>
        /\ ~ret.raised
        /\ (IsSuccessEnvelope(ret.value) \/ WellFormedError(ret.value))

\* the category safe_call gives a raw upstream error
Category(raw) == safe_call([failing |-> {"m"}, raw_error |-> raw], "m", <<>>)
\* the envelope of the same request had the upstream failed with raw
EnvelopeUnder(raw) == query_activities([env EXCEPT !.raw_error = raw], wrapper, req).ret.value
ActivityCallFailed == Done("query_activities") /\ env.credentials = "ok" /\ SomeCallFailed

GenericSuggestions ==
    ListV(<<StrV("Check your Garmin Connect credentials"),
            StrV("Verify your internet connection")>>)

DayIndex(name) == CHOOSE d \in 1..Len(DayNames) : DayNames[d] = name
DaysInRange == Max0(DayIndex(req.end_date.v) - DayIndex(req.start_date.v) + 1)
Summaries == ret.value["data"].v.summaries.v
HealthOffset == (PageOf(req.cursor) - 1) * PageBlock.limit
PartOf(summary, method) == summary.v[SummaryKey(method)]

IsUtcStamp(x) ==
    /\ x.tag = "text"
    /\ Len(x.v) >= 4
    /\ x.v[1] = env.now.date
    /\ x.v[2] = "T"
    /\ x.v[3] = env.now.time
    /\ x.v[Len(x.v)] = "Z"
    /\ \A i \in 1..Len(x.v) : x.v[i] # "+00:00"

MetadataOf(r) == r["metadata"].v

NoInsights(analysis) ==
    \/ analysis.tag = "None"
    \/ "insights" \notin DOMAIN analysis.v
    \/ analysis.v["insights"].v = <<>>

\* C11: analysis omission.  In the output of build_response the analysis
\* key is absent when no insights are supplied (analysis None, empty, or
\* without insights), and an analysis key that is present holds a
\* non-empty insights list.
C11_AnalysisOmission ==
    Done("build_response") =>
        /\ NoInsights(req.analysis) => "analysis" \notin DOMAIN ret
        /\ "analysis" \in DOMAIN ret => ~NoInsights(ret["analysis"])


---------------------------------------------------------------------------
(* Properties of the response builders *)

(* json.loads: a strict JSON reader of the chunk text *)

JSONDecodeError == [ok |-> FALSE]
Parsed(v, next) == [ok |-> TRUE, v |-> v, next |-> next]
Cons(x, rest) == IF rest.ok THEN Parsed(<<x>> \o rest.v, rest.next) ELSE JSONDecodeError
Unescape(c) == IF c = "n" THEN "\n" ELSE c
\* the float literals of JSON the model writes (NaN and Infinity are none)
FloatLiterals == {"1.5", "5000.0"}

\* the contents of a string literal from t[i] up to the closing quote
RECURSIVE ParseString(_, _)
ParseString(t, i) ==
    IF i > Len(t) \/ t[i] = "\n" THEN JSONDecodeError
    ELSE IF t[i] = "\"" THEN Parsed(<<>>, i + 1)
    ELSE IF t[i] = "\\"
         THEN (IF i + 1 > Len(t) \/ t[i + 1] \notin {"n", "\"", "\\"} THEN JSONDecodeError
               ELSE Cons(Unescape(t[i + 1]), ParseString(t, i + 2)))
    ELSE Cons(t[i], ParseString(t, i + 1))

\* the last index of the run of digits that starts at t[i]
DigitRunEnd(t, i) ==
    CHOOSE j \in i..Len(t) :
        /\ \A m \in i..j : t[m] \in DigitSet
        /\ (j = Len(t) \/ t[j + 1] \notin DigitSet)

ParseInt(t, i, sign) ==
    IF i > Len(t) \/ t[i] \notin DigitSet THEN JSONDecodeError
    ELSE IF t[i] = "0" /\ DigitRunEnd(t, i) > i THEN JSONDecodeError
    ELSE Parsed(IntV(sign * Number(SubSeq(t, i, DigitRunEnd(t, i)))), DigitRunEnd(t, i) + 1)

Wrap(r, tag) == IF r.ok THEN Parsed([tag |-> tag, v |-> r.v], r.next) ELSE JSONDecodeError
MembersToDict(r) ==
    IF r.ok
    THEN Parsed(DictV([k \in {r.v[i][1] : i \in 1..Len(r.v)} |->
                         r.v[CHOOSE i \in 1..Len(r.v) : r.v[i][1] = k][2]]), r.next)
    ELSE JSONDecodeError

RECURSIVE ParseValue(_, _)
RECURSIVE ParseItems(_, _)
RECURSIVE ItemsAfter(_, _)
RECURSIVE ParseMembers(_, _)
RECURSIVE MembersAfter(_, _, _)
ParseValue(t, i) ==
    IF i > Len(t) THEN JSONDecodeError
    ELSE CASE t[i] = "null" -> Parsed(None, i + 1)
           [] t[i] = "true" -> Parsed(BoolV(TRUE), i + 1)
           [] t[i] = "false" -> Parsed(BoolV(FALSE), i + 1)
           [] t[i] \in FloatLiterals -> Parsed(FloatV(t[i]), i + 1)
           [] t[i] = "\"" -> Wrap(ParseString(t, i + 1), "text")
           [] t[i] \in DigitSet -> ParseInt(t, i, 1)
           [] t[i] = "-" -> ParseInt(t, i + 1, -1)
           [] t[i] = "[" ->
                (IF i < Len(t) /\ t[i + 1] = "]" THEN Parsed(ListV(<<>>), i + 2)
                 ELSE Wrap(ParseItems(t, i + 1), "list"))
           [] t[i] = "{" ->
                (IF i < Len(t) /\ t[i + 1] = "}" THEN Parsed(DictV(<<>>), i + 2)
                 ELSE MembersToDict(ParseMembers(t, i + 1)))
           [] OTHER -> JSONDecodeError
ParseItems(t, i) == ItemsAfter(t, ParseValue(t, i))
ItemsAfter(t, r) ==
    IF ~r.ok \/ r.next > Len(t) THEN JSONDecodeError
    ELSE IF t[r.next] = "]" THEN Parsed(<<r.v>>, r.next + 1)
    ELSE IF t[r.next] = "," THEN Cons(r.v, ParseItems(t, r.next + 1))
    ELSE JSONDecodeError
ParseMembers(t, i) ==
    IF i + 3 > Len(t) \/ t[i] # "\"" \/ t[i + 2] # "\"" \/ t[i + 3] # ":" THEN JSONDecodeError
    ELSE MembersAfter(t, t[i + 1], ParseValue(t, i + 4))
MembersAfter(t, k, r) ==
    IF ~r.ok \/ r.next > Len(t) THEN JSONDecodeError
    ELSE IF t[r.next] = "}" THEN Parsed(<<(<<k, r.v>>)>>, r.next + 1)
    ELSE IF t[r.next] = "," THEN Cons(<<k, r.v>>, ParseMembers(t, r.next + 1))
    ELSE JSONDecodeError

WholeText(t, r) == IF r.ok /\ r.next = Len(t) + 1 THEN r ELSE JSONDecodeError
json_loads(t) == WholeText(t, ParseValue(t, 1))

\* a value as json.loads gives it back: every string is text
RECURSIVE Canon(_)
Canon(obj) ==
    CASE obj.tag = "str" -> TextV(<<obj.v>>)
      [] obj.tag = "dict" -> DictV([k \in DOMAIN obj.v |-> Canon(obj.v[k])])
      [] obj.tag = "list" -> ListV([i \in 1..Len(obj.v) |-> Canon(obj.v[i])])
      [] OTHER -> obj

\* build_response returned a string and the string is JSON
ParsesBack == Done("build_response") /\ wire.ok /\ json_loads(wire.text).ok
\* the members of the parsed response
ParsedOutput == json_loads(wire.text).v.v

\* out is what in must come out as: the ISO-8601 string for a datetime, the
\* same keys as strings and the same positions for dicts and lists, the same
\* value for every other scalar
RECURSIVE Normalized(_, _)
Normalized(in, out) ==
    CASE in.tag = "datetime" -> out = TextV(isoformat(in))
      [] in.tag = "dict" ->
            /\ out.tag = "dict"
            /\ DOMAIN out.v = DOMAIN in.v
            /\ \A k \in DOMAIN in.v : Normalized(in.v[k], out.v[k])
      [] in.tag = "intdict" ->
            /\ out.tag = "dict"
            /\ DOMAIN out.v = {ToString(n) : n \in DOMAIN in.v}
            /\ \A n \in DOMAIN in.v : Normalized(in.v[n], out.v[ToString(n)])
      [] in.tag = "list" ->
            /\ out.tag = "list"
            /\ Len(out.v) = Len(in.v)
            /\ \A i \in 1..Len(in.v) : Normalized(in.v[i], out.v[i])
      [] OTHER -> out = Canon(in)

\* the caller's metadata entries other than fetched_at, which the builder
\* sets itself
NormalizedMetadata(metadata, out) ==
    metadata.tag = "dict" =>
        \A k \in DOMAIN metadata.v \ {"fetched_at"} :
            k \in DOMAIN out.v /\ Normalized(metadata.v[k], out.v[k])

\* C12: datetime normalization.  For every input to build_response in which
\* datetime values are nested at any depth inside lists and mappings of
\* data, analysis or metadata, the parsed output holds the ISO-8601 string of
\* that value at each such position, mapping keys become strings, and every
\* other scalar is passed through unchanged.
C12_DatetimeNormalization ==
    ParsesBack =>
        /\ Normalized(req.data, ParsedOutput["data"])
        /\ Truthy(req.analysis) =>
              "analysis" \in DOMAIN ParsedOutput
              /\ Normalized(req.analysis, ParsedOutput["analysis"])
        /\ NormalizedMetadata(req.metadata, ParsedOutput["metadata"])

\* a datetime three levels down in data, one in a list of analysis, one in
\* metadata
C12_Witness ==
    /\ ParsesBack
    /\ req.data = NestedData
    /\ ParsedOutput["data"].v["laps"].v[1].v["start"]
         = TextV(<<"2025-10-15", "T", "14:30:00", ".", "123456", "+00:00">>)
    /\ Truthy(req.analysis) /\ Holds(req.analysis, "datetime")
    /\ Holds(req.metadata, "datetime")


\* C13: envelope parse-back.  For every accepted input, the string returned
\* by build_response is syntactically valid JSON and parsing it gives a
\* structure whose data field deep-equals the datetime-normalized input data.
C13_EnvelopeParseBack ==
    (Done("build_response") /\ wire.ok) =>
        /\ json_loads(wire.text).ok
        /\ ParsedOutput["data"] = Canon(_convert_datetimes(req.data))


\* a response builder returned a string
BuilderReturned ==
    pc = "done" /\ req.tool \in {"build_response", "build_error_response"} /\ wire.ok

HasNewline(t) == \E i \in 1..Len(t) : t[i] = "\n"
HasDoubleSpace(t) == \E i \in 1..Len(t) - 1 : t[i] = " " /\ t[i + 1] = " "

\* the backslashes that stand directly before t[j]
BackslashesBefore(t, j) ==
    j - 1 - (CHOOSE m \in 0..(j - 1) :
                /\ m = 0 \/ t[m] # "\\"
                /\ \A n \in (m + 1)..(j - 1) : t[n] = "\\")
\* t[j] opens or closes a string literal
IsQuote(t, j) == t[j] = "\"" /\ BackslashesBefore(t, j) % 2 = 0
\* t[i] lies inside a string literal
InsideString(t, i) == Cardinality({j \in 1..(i - 1) : IsQuote(t, j)}) % 2 = 1

\* whitespace that json.dumps itself put between the values
HasWhitespaceBetweenValues(t) ==
    \E i \in 1..Len(t) : t[i] \in {" ", "\n", "\t"} /\ ~InsideString(t, i)

\* C14 as stated: for every input, the strings returned by build_response
\* and build_error_response contain no newline character and no sequence of
\* two consecutive spaces.
C14_AsStated ==
    BuilderReturned => ~HasNewline(wire.text) /\ ~HasDoubleSpace(wire.text)

\* C14: envelope compactness.  The strings returned by build_response and
\* build_error_response contain no newline character and no whitespace
\* outside string literals; two consecutive spaces occur only inside a
\* string literal, where a string of the input has them.
C14_EnvelopeCompactness ==
    BuilderReturned =>
        /\ ~HasNewline(wire.text)
        /\ ~HasWhitespaceBetweenValues(wire.text)

\* a response with all four members whose data holds a string with two
\* consecutive spaces
C14_Witness ==
    /\ BuilderReturned
    /\ req.tool = "build_response"
    /\ DOMAIN ret = {"data", "analysis", "pagination", "metadata"}
    /\ HasDoubleSpace(wire.text)


Representable(obj) == ~Holds(obj, "object") /\ ~Holds(obj, "cycle")
InputRepresentable ==
    Representable(req.data) /\ Representable(req.analysis) /\ Representable(req.metadata)
InputCyclic ==
    Holds(req.data, "cycle") \/ Holds(req.analysis, "cycle") \/ Holds(req.metadata, "cycle")

ErrorParsesBack == Done("build_error_response") /\ wire.ok /\ json_loads(wire.text).ok
\* the error object of the parsed output
ParsedError == json_loads(wire.text).v.v["error"].v
\* a non-empty list of suggestions was supplied
SuggestionsSupplied == req.suggestions.tag = "list" /\ req.suggestions.v # <<>>

\* C17: error envelope shape.  Every output of build_error_response is a
\* single object {error: {...}} whose error always has type (default
\* "error"), message and a UTC ISO-8601 timestamp ending in Z, and has
\* suggestions exactly when a non-empty suggestion list was supplied.
C17_ErrorEnvelopeShape ==
    Done("build_error_response") =>
        /\ ErrorParsesBack
        /\ json_loads(wire.text).v.tag = "dict"
        /\ DOMAIN json_loads(wire.text).v.v = {"error"}
        /\ {"type", "message", "timestamp"} \subseteq DOMAIN ParsedError
        /\ DOMAIN ParsedError \subseteq {"type", "message", "timestamp", "suggestions"}
        /\ ParsedError["type"]
             = (IF req.error_type.tag = "omitted" THEN TextV(<<"error">>)
                ELSE Canon(req.error_type))
        /\ ParsedError["message"] = Canon(req.message)
        /\ IsUtcStamp(ParsedError["timestamp"])
        /\ "suggestions" \in DOMAIN ParsedError <=> SuggestionsSupplied
        /\ SuggestionsSupplied => ParsedError["suggestions"] = Canon(req.suggestions)

\* the default type, two suggestions, a clock with microseconds
C17_Witness ==
    /\ ErrorParsesBack
    /\ req.error_type.tag = "omitted"
    /\ ParsedError["type"] = TextV(<<"error">>)
    /\ SuggestionsSupplied
    /\ Len(ParsedError["suggestions"].v) = 2
    /\ env.now.micro # "000000"


---------------------------------------------------------------------------
(* Properties of interleaved paging *)

\* the first n responses a caller gets when it pages through its query
\* alone, from a fresh server process
RECURSIVE SoloFrom(_, _, _, _, _)
RECURSIVE SoloAfter(_, _, _, _)
SoloFrom(e, w, query, cursor, n) ==
    SoloAfter(e, query, query_activities(e, w, [query EXCEPT !.cursor = cursor]), n)
SoloAfter(e, query, out, n) ==
    <<out.ret>>
    \o (IF n > 1 /\ NextCursor(out.ret).tag # "None"
        THEN SoloFrom(e, out.wrapper, query, NextCursor(out.ret), n - 1)
        ELSE <<>>)

Alone(caller) ==
    IF caller.responses = <<>> THEN <<>>
    ELSE SoloFrom(env, "None", caller.query, None, Len(caller.responses))

\* C18: no cross-call interaction.  When two callers page through logically
\* different queries and their page requests interleave in any order, each
\* caller receives exactly the responses it would receive if it ran alone
\* against the same stable upstream; the only state carried from one page
\* request to the next is the cursor.
C18_NoCrossCallInteraction ==
    \A id \in Callers : callers.of[id].responses = Alone(callers.of[id])

\* both callers have paged to the end of their queries, taking turns
C18_Witness ==
    /\ pc = "serving"
    /\ Len(callers.served) >= 4
    /\ SubSeq(callers.served, 1, 4) = <<"A", "B", "A", "B">>
    /\ \A id \in Callers :
          /\ ~callers.of[id].paging
          /\ Len(callers.of[id].responses) >= 2
          /\ IsSuccessEnvelope(callers.of[id].responses[Len(callers.of[id].responses)].value)


---------------------------------------------------------------------------
(* Properties of the tools' argument handling *)

\* the limit is a string that int() reads
NumericLimit == req.limit.tag = "text" /\ int(req.limit.v).ok
\* the same request with the limit given as the integer the string names
WithIntegerLimit == [req EXCEPT !.limit = IntV(int(req.limit.v).v)]
HasPagination(r) == IsSuccessEnvelope(r.value) /\ "pagination" \in DOMAIN r.value

\* C19: limit handling of query_health_summary.  A missing limit defaults to
\* 7 days per page; a limit given as a numeric string is treated as that
\* integer; a non-numeric string, or any value outside 1..30, yields a
\* validation_error envelope and the tool makes no upstream call.
C19_HealthLimitHandling ==
    HealthTool =>
        /\ (req.limit.tag = "None" /\ HasPagination(ret)) =>
              ret.value["pagination"].v.limit = 7
        /\ NumericLimit =>
              /\ ret = query_health_summary(env, WithIntegerLimit).ret
              /\ calls = query_health_summary(env, WithIntegerLimit).calls
        /\ BadHealthLimit => (IsValidationError(ret) /\ calls = <<>>)
        /\ (req.limit.tag = "int" /\ req.limit.v \in 1..30 /\ HasPagination(ret)) =>
              ret.value["pagination"].v.limit = req.limit.v

\* the limit "2" pages a four-day range: two days, and a cursor for the rest
C19_Witness ==
    /\ HealthRange
    /\ NumericLimit
    /\ int(req.limit.v).v = 2
    /\ HasPagination(ret)
    /\ ret.value["pagination"].v.limit = 2
    /\ ret.value["pagination"].v.returned = 2
    /\ ret.value["pagination"].v.has_more
    /\ calls # <<>>


\* the pattern the documented precedence chooses for the request
ChosenPattern ==
    CASE req.activity_id.tag # "None" -> 1
      [] req.activity_id.tag = "None" /\ RangeMode -> 2
      [] req.activity_id.tag = "None" /\ ~RangeMode /\ Truthy(req.date) -> 3
      [] req.activity_id.tag = "None" /\ GeneralMode -> 4
      [] OTHER -> 5
\* the upstream method each pattern reads
PatternMethod ==
    <<"get_activity", "get_activities_by_date", "get_activities_fordate", "get_activities",
      "get_last_activity">>
CarriesPagination == "pagination" \in DOMAIN ret.value
\* the upstream calls made are those of the chosen pattern, one at most
OnlyChosenPattern ==
    /\ Len(SafeCalls) <= 1
    /\ \A i \in 1..Len(SafeCalls) : SafeCalls[i].method = PatternMethod[ChosenPattern]

\* C20 as stated: each call of query_activities executes exactly one of the
\* five documented patterns, chosen by fixed precedence, and the response
\* carries a pagination block exactly when the chosen pattern is one of the
\* two paginated list modes.
C20_AsStated ==
    Done("query_activities") =>
        /\ OnlyChosenPattern
        /\ CarriesPagination <=> ChosenPattern \in {2, 4}

\* C20: query-pattern dispatch of query_activities.  Each call that obtains
\* the client executes exactly one of the five documented patterns, chosen
\* by fixed precedence (activity_id; else start_date with end_date; else
\* date; else cursor or limit; else last activity); a success response
\* carries a pagination block exactly when the chosen pattern is one of the
\* two paginated list modes, and an error response carries none; a call that
\* returns a success response has read the upstream once, with the chosen
\* pattern's method.
C20_QueryPatternDispatch ==
    Done("query_activities") =>
        /\ OnlyChosenPattern
        /\ IsSuccessEnvelope(ret.value) =>
              /\ Len(SafeCalls) = 1
              /\ CarriesPagination <=> ChosenPattern \in {2, 4}
        /\ IsErrorEnvelope(ret.value) => ~CarriesPagination
        /\ IsSuccessEnvelope(ret.value) \/ IsErrorEnvelope(ret.value)

\* a date range, a date, a cursor and a limit are all given: the date range
\* is served
C20_Witness ==
    /\ Done("query_activities")
    /\ ChosenPattern = 2
    /\ Truthy(req.date)
    /\ req.cursor.tag # "None"
    /\ req.limit.tag # "None"
    /\ IsSuccessEnvelope(ret.value)
    /\ CarriesPagination
    /\ SafeCalls = <<Call("get_activities_by_date", <<"2024-01-01", "2024-01-04", req.activity_type>>)>>


---------------------------------------------------------------------------
(* Properties of the formatters and the date helpers *)

\* C21: the unit-formatting helpers are total.  Each of the distance,
\* duration, elevation, speed, pace and weight formatters returns the
\* sentinel "N/A" for a None input and never raises for any input of its
\* declared domain (float | int | None); the pace formatter returns "N/A"
\* for a speed of zero instead of dividing by zero.
C21_FormattersTotal ==
    Done("formatter") =>
        /\ ret.kind = "return"
        /\ req.value.tag = "None" => ret.value = StrV("N/A")
        /\ (req.name = "format_pace" /\ req.value \in {IntV(0), FloatV("0.0")}) =>
              ret.value = StrV("N/A")


\* the documented period forms
IsRelativeForm(period) ==
    /\ period # <<>> /\ period[Len(period)] = "d"
    /\ int(SubSeq(period, 1, Len(period) - 1)).ok
IsYearForm(period) ==
    period \in {<<"y", "t", "d">>, <<"t", "h", "i", "s", "-", "y", "e", "a", "r">>}
IsWeekForm(period) == period = <<"t", "h", "i", "s", "-", "w", "e", "e", "k">>
IsMonthForm(period) == period = <<"t", "h", "i", "s", "-", "m", "o", "n", "t", "h">>
IsAbsoluteForm(period) ==
    /\ Find(period, ":") # 0
    /\ strptime(strip(SplitOnce(period, ":")[1])).ok
    /\ strptime(strip(SplitOnce(period, ":")[2])).ok
RangeOf(start_date, end_date) == ret.kind = "return" /\ ret.value = TupleV(<<start_date, end_date>>)
RaisesValueError == ret.kind = "raise" /\ ret.exc = "ValueError"
MondayOfWeek(day) == CHOOSE d \in (day - 6)..day : weekday(d) = 0
FirstOfMonth(day) == CHOOSE d \in (day - 30)..day : MonthOf(d) = MonthOf(day) /\ MonthOf(d - 1) # MonthOf(day)
FirstOfYear(day) == CHOOSE d \in (day - 365)..day : YearOf(d) = YearOf(day) /\ (d = 1 \/ YearOf(d - 1) # YearOf(day))

\* C22: parse_time_range supports every documented period form: "<N>d"
\* gives (today - N days, today), "ytd" and "this-year" give (1 January of
\* the current year, today), "this-week" (Monday of the current week,
\* today), "this-month" (first day of the current month, today), an absolute
\* range its two dates with start <= end; every other period, and an
\* absolute range with start after end, raises ValueError.
C22_PeriodForms ==
    Done("parse_time_range") =>
        IF IsYearForm(req.period) THEN RangeOf(FirstOfYear(env.today), env.today)
        ELSE IF IsRelativeForm(req.period)
        THEN RangeOf(env.today - int(SubSeq(req.period, 1, Len(req.period) - 1)).v, env.today)
        ELSE IF IsWeekForm(req.period) THEN RangeOf(MondayOfWeek(env.today), env.today)
        ELSE IF IsMonthForm(req.period) THEN RangeOf(FirstOfMonth(env.today), env.today)
        ELSE IF IsAbsoluteForm(req.period)
        THEN LET s == strptime(strip(SplitOnce(req.period, ":")[1])).v
                 e == strptime(strip(SplitOnce(req.period, ":")[2])).v
             IN  IF s <= e THEN RangeOf(s, e) ELSE RaisesValueError
        ELSE RaisesValueError


Weeks == ret.value.v

\* C30: for start_date <= end_date get_week_ranges returns consecutive
\* (week_start, week_end) pairs that partition [start_date, end_date]: the
\* first starts at start_date, the last ends at end_date, week_start <=
\* week_end in each, each next pair starts the day after the previous one
\* ends, every pair but the last ends on a Sunday and every pair but the
\* first starts on a Monday; for start_date > end_date the result is empty.
C30_WeekPartition ==
    Done("get_week_ranges") =>
        /\ ret.kind = "return"
        /\ IF req.start_date > req.end_date THEN Weeks = <<>>
           ELSE /\ Len(Weeks) >= 1
                /\ Weeks[1][1] = req.start_date
                /\ Weeks[Len(Weeks)][2] = req.end_date
                /\ \A i \in 1..Len(Weeks) : Weeks[i][1] <= Weeks[i][2]
                /\ \A i \in 1..(Len(Weeks) - 1) :
                      /\ Weeks[i + 1][1] = Weeks[i][2] + 1
                      /\ weekday(Weeks[i][2]) = 6
                /\ \A i \in 2..Len(Weeks) : weekday(Weeks[i][1]) = 0

\* a range that starts and ends in mid-week and spans a whole week between
C30_Witness ==
    /\ Done("get_week_ranges")
    /\ weekday(req.start_date) = 2
    /\ weekday(req.end_date) = 3
    /\ Len(Weeks) = 3
    /\ Weeks[2][2] - Weeks[2][1] = 6


---------------------------------------------------------------------------
(* Properties of paging *)

\* a success response that carries a pagination block
PagedSuccess ==
    /\ ~ret.raised
    /\ IsSuccessEnvelope(ret.value)
    /\ "pagination" \in DOMAIN ret.value
PagedActivities == PaginatedActivities /\ PagedSuccess
PagedHealth == HealthRange /\ PagedSuccess
ReturnedSummaries == ret.value["data"].v.summaries.v
\* the limit in effect: the argument, or the tool's default
HealthPageLimit ==
    IF req.limit.tag = "None" THEN HealthDefaultLimit
    ELSE IF req.limit.tag = "text" THEN int(req.limit.v).v
    ELSE req.limit.v
PageSizes(returned, count, length, limit) ==
    /\ returned = count
    /\ returned = length
    /\ returned <= PageBlock.limit
    /\ PageBlock.has_more => returned = PageBlock.limit
    /\ PageBlock.limit = limit

\* C25: page-size invariant.  In every success response of a paginated
\* query pagination.returned equals data.count and the length of the
\* returned list, never exceeds pagination.limit, and equals
\* pagination.limit whenever has_more is true; pagination.limit is the
\* limit in effect for the call.
C25_PageSizeInvariant ==
    /\ PagedActivities =>
          PageSizes(PageBlock.returned, ret.value["data"].v.count.v, Len(ReturnedActivities),
                    LimitOrDefault(req.limit))
    /\ PagedHealth =>
          PageSizes(PageBlock.returned, ret.value["data"].v.count.v, Len(ReturnedSummaries),
                    HealthPageLimit)

\* a full page of days with more to come
C25_Witness ==
    /\ PagedHealth
    /\ PageBlock.has_more
    /\ PageBlock.limit = 2
    /\ Len(ReturnedSummaries) = 2
    /\ req.cursor.tag = "text"


\* the cursor argument is a token: it decodes to a page and maybe filters
CursorDecodes == req.cursor.tag = "text" /\ req.cursor.v # <<>> /\ decode_cursor(req.cursor.v).ok
CursorPageNumber == decode_cursor(req.cursor.v).data["page"]
\* the call repeated with another cursor argument
Rerun(cursor) ==
    IF req.tool = "query_activities"
    THEN query_activities(env, "None", [req EXCEPT !.cursor = cursor]).ret
    ELSE query_health_summary(env, [req EXCEPT !.cursor = cursor]).ret
\* cursors for the same page with other filters embedded
SamePageCursors ==
    {TextV(encode_cursor(CursorPageNumber, f)) : f \in SampleFilters \cup ForeignFilters}
\* the filters a call builds from its own parameters
OwnFilters ==
    IF req.tool = "query_health_summary"
    THEN [start_date |-> req.start_date.v, end_date |-> req.end_date.v]
    ELSE (IF RangeMode THEN [start_date |-> req.start_date.v, end_date |-> req.end_date.v]
          ELSE <<>>)
         @@ (IF req.activity_type # "" THEN [activity_type |-> req.activity_type] ELSE <<>>)
FiltersOf(data) == IF "filters" \in DOMAIN data THEN data["filters"] ELSE <<>>

\* C26: cursor filters never influence the result.  A paginated query uses
\* only the page number of the supplied cursor: calls that differ only in
\* the filters embedded in the cursor return the same response, and the
\* filters written into the next cursor are those of the current call's own
\* parameters.
C26_CursorFiltersIgnored ==
    ((PaginatedActivities \/ HealthRange) /\ CursorDecodes) =>
        /\ \A c \in SamePageCursors : Rerun(c) = ret
        /\ (PagedSuccess /\ PageBlock.has_more) =>
              /\ decode_cursor(PageBlock.cursor.v).ok
              /\ FiltersOf(decode_cursor(PageBlock.cursor.v).data) = OwnFilters

\* a typed date-range query answers a cursor that carries another range
C26_Witness ==
    /\ PagedActivities
    /\ RangeMode
    /\ req.activity_type = "running"
    /\ req.cursor = TextV(encode_cursor(2, DictV([start_date |-> "2024-01-02",
                                                  end_date |-> "2024-01-02"])))
    /\ PageBlock.has_more
    /\ Len(ReturnedActivities) = 1


\* a range-mode call of query_health_summary that passes validation and
\* whose dates parse, asking for a page with no day on it
HealthPageBeyondEnd ==
    /\ HealthRange
    /\ (req.cursor.tag = "None" \/ CursorDecodes)
    /\ ~BadHealthLimit
    /\ parse_date_string(env, req.start_date.v).ok
    /\ parse_date_string(env, req.end_date.v).ok
    /\ (IF Truthy(req.cursor) THEN CursorPageNumber - 1 ELSE 0) * HealthPageLimit
          >= Len(AllDates(parse_date_string(env, req.start_date.v).day,
                          parse_date_string(env, req.end_date.v).day))

\* C28: empty page in query_health_summary.  A range-mode call with a valid
\* cursor and an in-range limit whose page lies beyond the last day of the
\* range, or whose start_date is after its end_date, returns a success
\* envelope with an empty summaries list, count 0, has_more false and a
\* null cursor, not an error envelope.
C28_EmptyHealthPage ==
    HealthPageBeyondEnd =>
        /\ PagedSuccess
        /\ ReturnedSummaries = <<>>
        /\ ret.value["data"].v.count = IntV(0)
        /\ ~PageBlock.has_more
        /\ PageBlock.cursor = None


---------------------------------------------------------------------------
(* Properties of the wrapped client *)

UpstreamFails == req.method \in env.failing
\* the exception class the claim assigns to an upstream failure
ClaimedClass(raw) ==
    IF raw.cls = "GarminConnectAuthenticationError" THEN "GarminAuthenticationError"
    ELSE IF raw.cls = "GarthHTTPError" /\ raw.status \in {"401", "403"}
    THEN "GarminAuthenticationError"
    ELSE IF raw.cls = "GarthHTTPError" /\ raw.status = "404" THEN "GarminNotFoundError"
    ELSE IF raw.cls = "GarthHTTPError" /\ raw.status = "429" THEN "GarminRateLimitError"
    ELSE "GarminAPIError"

\* C29: upstream error classification by safe_call.  A call returns the
\* upstream method's result or raises GarminAPIError or one of its
\* subclasses; an authentication failure or HTTP 401/403 raises
\* GarminAuthenticationError, HTTP 404 GarminNotFoundError, HTTP 429
\* GarminRateLimitError, and every other failure the generic GarminAPIError.
C29_ErrorClassification ==
    Done("safe_call") =>
        IF UpstreamFails
        THEN /\ ~ret.ok
             /\ ret.exc \in GarminAPIErrorClasses
             /\ ret.exc = ClaimedClass(env.raw_error)
        ELSE ret = [ok |-> TRUE, value |-> UpstreamValue(env, req.method, req.args)]


---------------------------------------------------------------------------
(* Properties of a traversal *)

ActivityTraversal == pc = "paging" /\ callers.query.tool = "query_activities"
HealthTraversal == pc = "paging" /\ callers.query.tool = "query_health_summary"
\* the upstream answers every call
StableUpstream == env.failing = {} /\ env.credentials = "ok"
TraversalOver == pc = "paging" /\ ~callers.paging
PagesSoFar == Len(callers.responses)
TraversalLimit == callers.query.limit.v

ActivitiesOn(r) ==
    IF ~r.raised /\ IsSuccessEnvelope(r.value) THEN r.value["data"].v.activities.v ELSE <<>>
RECURSIVE Concatenation(_)
Concatenation(pages) ==
    IF pages = <<>> THEN <<>> ELSE Head(pages) \o Concatenation(Tail(pages))
ActivitiesSoFar == Concatenation([i \in 1..PagesSoFar |-> ActivitiesOn(callers.responses[i])])
UpstreamListing ==
    [k \in 1..env.listing |-> format_activity(ActivityV(k), callers.query.unit)]

\* C23: exactly-once traversal.  Calling a paginated activity query again
\* and again with unchanged parameters and the cursor of the previous
\* response, against a listing of N records that does not change, the
\* pages returned so far are the listing's first records in upstream order,
\* and when the traversal is over their concatenation is the whole listing:
\* no gap and no duplicate.
C23_ExactlyOnceTraversal ==
    (ActivityTraversal /\ StableUpstream) =>
        /\ ActivitiesSoFar =
              SubSeq(UpstreamListing, 1, Min(env.listing, PagesSoFar * TraversalLimit))
        /\ TraversalOver => ActivitiesSoFar = UpstreamListing

\* three pages of two, two and one records
C23_Witness ==
    /\ ActivityTraversal
    /\ StableUpstream
    /\ TraversalOver
    /\ env.listing = MaxRecords
    /\ TraversalLimit = 2
    /\ PagesSoFar >= 3
    /\ Len(ActivitiesSoFar) = MaxRecords


\* max(1, ceil(N / L))
PagesNeeded ==
    IF env.listing = 0 THEN 1 ELSE (env.listing + TraversalLimit - 1) \div TraversalLimit
LastResponse == callers.responses[PagesSoFar]
EndsTraversal(r) ==
    /\ ~r.raised
    /\ IsSuccessEnvelope(r.value)
    /\ ~r.value["pagination"].v.has_more
    /\ r.value["pagination"].v.cursor = None
\* C24: the traversal terminates.  Following cursors from the first page
\* over a stable listing of N records with a fixed limit L, the response
\* with has_more = false and cursor = null is page max(1, ceil(N / L)) and
\* no other: every page request adds one response, a cursor is held exactly
\* while fewer pages than that were read, and when N is a positive multiple
\* of L the last page holds L records and no extra empty page is announced.
C24_TraversalTerminates ==
    (ActivityTraversal /\ StableUpstream) =>
        /\ PagesSoFar <= PagesNeeded
        /\ callers.paging <=> PagesSoFar < PagesNeeded
        /\ \A i \in 1..PagesSoFar : EndsTraversal(callers.responses[i]) <=> i = PagesNeeded
        /\ (TraversalOver /\ env.listing > 0 /\ env.listing % TraversalLimit = 0) =>
              Len(ActivitiesOn(LastResponse)) = TraversalLimit

\* a listing of four records read in two full pages
C24_Witness ==
    /\ ActivityTraversal
    /\ StableUpstream
    /\ TraversalOver
    /\ env.listing = 4
    /\ TraversalLimit = 2
    /\ PagesSoFar = 2
    /\ Len(ActivitiesOn(LastResponse)) = 2


SummariesOn(r) ==
    IF ~r.raised /\ IsSuccessEnvelope(r.value) THEN r.value["data"].v.summaries.v ELSE <<>>
\* the days of the summaries of one response, in the order returned
DaysOn(r) == [i \in 1..Len(SummariesOn(r)) |-> SummariesOn(r)[i].v["date"].v.date.v]
DaysSoFar == Concatenation([i \in 1..PagesSoFar |-> DaysOn(callers.responses[i])])
\* every calendar day of [start_date, end_date], ascending
DaysOfRange ==
    [i \in 1..Max0(DayIndex(callers.query.end_date.v) - DayIndex(callers.query.start_date.v) + 1)
        |-> DayNames[DayIndex(callers.query.start_date.v) + i - 1]]
HealthTraversalLimit ==
    IF callers.query.limit.tag = "None" THEN HealthDefaultLimit
    ELSE IF callers.query.limit.tag = "text" THEN int(callers.query.limit.v).v
    ELSE callers.query.limit.v
\* the days the upstream was asked about while page i was assembled
DaysAsked(i) == {callers.page_calls[i][j].args[1] : j \in 1..Len(callers.page_calls[i])}
DaysReturned(i) == {DaysOn(callers.responses[i])[j] : j \in 1..Len(DaysOn(callers.responses[i]))}

\* C27: date-range paging of query_health_summary.  Following cursors from
\* the first page with unchanged start_date, end_date and limit, the pages
\* returned so far hold the first days of the range in ascending order, the
\* finished traversal holds every day of [start_date, end_date] exactly
\* once, and while one page is assembled the upstream is asked only about
\* the days returned on that page, never about the look-ahead day.
C27_HealthRangePaging ==
    HealthTraversal =>
        /\ DaysSoFar =
              SubSeq(DaysOfRange, 1, Min(Len(DaysOfRange), PagesSoFar * HealthTraversalLimit))
        /\ TraversalOver => DaysSoFar = DaysOfRange
        /\ \A i \in 1..PagesSoFar : DaysAsked(i) = DaysReturned(i)

\* four days read in pages of three and one
C27_Witness ==
    /\ HealthTraversal
    /\ TraversalOver
    /\ HealthTraversalLimit = 3
    /\ PagesSoFar = 2
    /\ DaysOn(callers.responses[1]) = <<"2024-01-01", "2024-01-02", "2024-01-03">>
    /\ DaysOn(callers.responses[2]) = <<"2024-01-04">>
    /\ DaysAsked(1) = {"2024-01-01", "2024-01-02", "2024-01-03"}

====
